---- MODULE Spec2Model ----
(***************************************************************************)
(* Workout export layer of claude-coach.                                   *)
(*                                                                         *)
(*   src/src/viewer/lib/export/erg.ts    MRC/ERG text encoder              *)
(*   src/src/viewer/lib/export/zwo.ts    ZWO (XML) encoder                 *)
(*   src/src/viewer/lib/export/fit.ts    FIT record-list encoder           *)
(*   src/src/viewer/lib/export/ics.ts    iCalendar encoder                 *)
(*   src/src/viewer/lib/export/index.ts  export orchestrator               *)
(*                                                                         *)
(* Five specifications share the variables:                                *)
(*   SpecCodec  one workout is drawn and the four encoders are applied to  *)
(*              it (pure functions of the workout and the settings);       *)
(*   Spec       one export call (exportWorkout or exportAllWorkouts) runs  *)
(*              from its entry to its result, one action per synchronous   *)
(*              stretch between two awaits;                                *)
(*   SpecText   the text functions (escapeIcsText, foldLine,               *)
(*              sanitizeFilename, the XML escaping of generateZwo) are     *)
(*              applied to the texts of one drawn workout;                 *)
(*   SpecIcs    one plan is drawn, and generateIcs and                     *)
(*              exportPlanToCalendar are applied to it;                    *)
(*   SpecConcurrent  two export calls are in flight on one page, their     *)
(*              steps interleaved at the awaits.                           *)
(*                                                                         *)
(* A character outside ASCII is written as the four hexadecimal digits of  *)
(* its UTF-16 code unit.                                                   *)
(* Conventions.  Text that the code inspects character by character (names,*)
(* descriptions, file names) is a sequence of one-character strings; text  *)
(* that the code only passes along (error messages, tags) is a string.     *)
(* An optional field is <<>> when undefined and <<v>> when it holds v.     *)
(* Minutes are kept exactly, as integers counting 1/3000 of a minute, so   *)
(* that seconds/60 and meters/1000/30*60 lose nothing; the binary float    *)
(* rounding of the JavaScript numbers is not modelled.                     *)
(***************************************************************************)
EXTENDS Integers, Sequences, FiniteSets, TLC

VARIABLES
    workout,    \* SpecCodec: the Workout handed to the encoders
    output,     \* SpecCodec: what the last encoder call did
    calls,      \* Spec: per export call, its arguments, locals and position
    browser     \* Spec: the document and the object URLs downloadFile acts on

vars == <<workout, output, calls, browser>>

(***************************************************************************)
(* Optional values and small helpers                                       *)
(***************************************************************************)
undefined == <<>>

Some(v) == <<v>>

\* a ?? d
OrElse(a, d) == IF a = undefined THEN d ELSE a[1]

Min(a, b) == IF a < b THEN a ELSE b

Max(a, b) == IF a > b THEN a ELSE b

Last(s) == s[Len(s)]

RECURSIVE SumSeq(_)
SumSeq(s) == IF s = <<>> THEN 0 ELSE Head(s) + SumSeq(Tail(s))

\* The concatenation of the sequences of ss, in order (halving keeps the
\* evaluation shallow on long texts).
RECURSIVE Flatten(_)
Flatten(ss) ==
    IF Len(ss) = 0 THEN <<>>
    ELSE IF Len(ss) = 1 THEN ss[1]
    ELSE LET half == Len(ss) \div 2
         IN Flatten(SubSeq(ss, 1, half)) \o Flatten(SubSeq(ss, half + 1, Len(ss)))

\* All sequences over S of length lo..hi.
SeqsOf(S, lo, hi) == UNION { [1..n -> S] : n \in lo..hi }

(***************************************************************************)
(* Outcome of a call that either returns a value or throws an Error        *)
(***************************************************************************)
NoContent == [format |-> "none"]

Return(c) == [threw |-> FALSE, isError |-> FALSE, error |-> "", content |-> c]

\* throw new Error(message)
Throw(message) == [threw |-> TRUE, isError |-> TRUE, error |-> message, content |-> NoContent]

\* a thrown value that is not an instance of Error
ThrowNonError == [threw |-> TRUE, isError |-> FALSE, error |-> "", content |-> NoContent]

(***************************************************************************)
(* Data model (schema/training-plan: Workout, StructuredWorkout,           *)
(* WorkoutStep, IntervalSet), as the encoders read it                      *)
(***************************************************************************)
Sports == {"swim", "bike", "run", "strength", "brick", "race", "rest"}

WorkoutTypes ==
    {"rest", "recovery", "endurance", "tempo", "threshold", "intervals", "vo2max",
     "sprint", "race", "brick", "technique", "openwater", "hills", "long"}

TimeUnits == {"seconds", "minutes", "hours"}

DistanceUnits == {"meters", "kilometers", "miles"}

Step(type, value, unit, iunit, ivalue, low, high, cadence) ==
    [type      |-> type,
     duration  |-> [value |-> value, unit |-> unit],
     intensity |-> [unit |-> iunit, value |-> ivalue, valueLow |-> low, valueHigh |-> high],
     cadence   |-> cadence]

IntervalSet(repeats, steps) ==
    [type |-> "interval_set", repeats |-> repeats, steps |-> steps]

\* "repeats" in item
IsIntervalSet(item) == "repeats" \in DOMAIN item

Structure(warmup, main, cooldown) ==
    [warmup |-> warmup, main |-> main, cooldown |-> cooldown]

\* workout.structure is undefined, or Some(structure); durationMinutes likewise.
Workout(sport, type, name, description, humanReadable, durationMinutes, structure) ==
    [sport |-> sport, type |-> type, name |-> name, description |-> description,
     humanReadable |-> humanReadable,
     durationMinutes |-> durationMinutes, structure |-> structure]

\* settings.bike?.ftp
Settings(ftp) == [bike |-> [ftp |-> ftp]]

(***************************************************************************)
(* erg.ts                                                                  *)
(***************************************************************************)
TicksPerMinute == 60 * 50

\* Number.prototype.toFixed(2) of a minutes value: hundredths of a minute.
toFixed2Minutes(ticks) == (ticks * 100 + (TicksPerMinute \div 2)) \div TicksPerMinute

\* Faulty variant: running workouts are let through as well.
isErgSupportedAlsoRun(sport) == sport = "bike" \/ sport = "run"

isErgSupported(sport) == sport = "bike"

intensityToPercent(intensity) == intensity

\* Faulty variant: a duration in hours is taken as minutes.
getDurationMinutesHoursUnconverted(step) ==
    LET value == step.duration.value
        unit  == step.duration.unit
    IN CASE unit = "seconds"    -> (value * TicksPerMinute) \div 60
         [] unit = "meters"     -> (value * 60 * TicksPerMinute) \div (1000 * 30)
         [] unit = "kilometers" -> (value * 60 * TicksPerMinute) \div 30
         [] OTHER               -> value * TicksPerMinute

getDurationMinutes(step) ==
    LET value == step.duration.value
        unit  == step.duration.unit
    IN CASE unit = "seconds"    -> (value * TicksPerMinute) \div 60
         [] unit = "minutes"    -> value * TicksPerMinute
         [] unit = "hours"      -> value * 60 * TicksPerMinute
         [] unit = "meters"     -> (value * 60 * TicksPerMinute) \div (1000 * 30)
         [] unit = "kilometers" -> (value * 60 * TicksPerMinute) \div 30
         [] OTHER               -> value * TicksPerMinute

\* Faulty variant: a steady step gets its end point only.
ergAddStepEndOnly(acc, step) ==
    LET percent         == intensityToPercent(step.intensity.value)
        durationMinutes == getDurationMinutes(step)
        endMinute       == acc.currentMinute + durationMinutes
    IN IF step.intensity.valueLow # undefined /\ step.intensity.valueHigh # undefined
       THEN LET startPercent == intensityToPercent(step.intensity.valueLow[1])
                endPercent   == intensityToPercent(step.intensity.valueHigh[1])
            IN [points |-> acc.points \o << <<acc.currentMinute, startPercent>>,
                                            <<endMinute, endPercent>> >>,
                currentMinute |-> endMinute]
       ELSE [points |-> acc.points \o << <<endMinute, percent>> >>,
             currentMinute |-> endMinute]

\* The closure addStep of generateDataPoints; acc holds points and currentMinute.
ergAddStep(acc, step) ==
    LET percent         == intensityToPercent(step.intensity.value)
        durationMinutes == getDurationMinutes(step)
        endMinute       == acc.currentMinute + durationMinutes
    IN IF step.intensity.valueLow # undefined /\ step.intensity.valueHigh # undefined
       THEN LET startPercent == intensityToPercent(step.intensity.valueLow[1])
                endPercent   == intensityToPercent(step.intensity.valueHigh[1])
            IN [points |-> acc.points \o << <<acc.currentMinute, startPercent>>,
                                            <<endMinute, endPercent>> >>,
                currentMinute |-> endMinute]
       ELSE [points |-> acc.points \o << <<acc.currentMinute, percent>>,
                                       <<endMinute, percent>> >>,
             currentMinute |-> endMinute]

\* for (const step of steps) addStep(step)
RECURSIVE ergAddSteps(_, _)
ergAddSteps(acc, steps) ==
    IF steps = <<>> THEN acc
    ELSE ergAddSteps(ergAddStep(acc, Head(steps)), Tail(steps))

\* Faulty variant: each step of the set is repeated before the next one.
ergAddRepeatsStepwise(acc, intervalSet, i) ==
    LET n == intervalSet.repeats
        k == Len(intervalSet.steps)
    IN ergAddSteps(acc, [j \in 1..(n * k) |-> intervalSet.steps[((j - 1) \div n) + 1]])

\* for (let i = 0; i < intervalSet.repeats; i++) for (const step of intervalSet.steps) ...
RECURSIVE ergAddRepeats(_, _, _)
ergAddRepeats(acc, intervalSet, i) ==
    IF i < intervalSet.repeats
    THEN ergAddRepeats(ergAddSteps(acc, intervalSet.steps), intervalSet, i + 1)
    ELSE acc

\* for (const item of structure.main) ...
RECURSIVE ergAddMain(_, _)
ergAddMain(acc, main) ==
    IF main = <<>> THEN acc
    ELSE LET item == Head(main)
         IN ergAddMain(IF IsIntervalSet(item) THEN ergAddRepeats(acc, item, 0)
                                              ELSE ergAddStep(acc, item),
                       Tail(main))

\* Array of [minutes, percent] tuples (minutes in ticks).
generateDataPoints(structure) ==
    LET start       == [points |-> <<>>, currentMinute |-> 0]
        afterWarmup == ergAddSteps(start, structure.warmup)
        afterMain   == ergAddMain(afterWarmup, structure.main)
        afterCool   == ergAddSteps(afterMain, structure.cooldown)
    IN afterCool.points

\* Math.round(totalMinutes * 0.1) for a whole, non-negative number of minutes.
RoundTenth(totalMinutes) == (totalMinutes + 5) \div 10

\* workout.durationMinutes || 60
TotalMinutesOf(w) ==
    IF w.durationMinutes = undefined \/ w.durationMinutes[1] = 0 THEN 60
    ELSE w.durationMinutes[1]

\* Faulty variant: tempo and intervals share one entry.
ergMainPercentTempoHigh(type) ==
    CASE type = "recovery"  -> 55
      [] type = "endurance" -> 65
      [] type = "tempo"     -> 85
      [] type = "threshold" -> 95
      [] type = "vo2max"    -> 110
      [] type = "intervals" -> 85
      [] OTHER              -> 65

ergMainPercent(type) ==
    CASE type = "recovery"  -> 55
      [] type = "endurance" -> 65
      [] type = "tempo"     -> 80
      [] type = "threshold" -> 95
      [] type = "vo2max"    -> 110
      [] type = "intervals" -> 85
      [] OTHER              -> 65

generateSimpleDataPoints(w) ==
    LET totalMinutes    == TotalMinutesOf(w)
        mainPercent     == ergMainPercent(w.type)
        warmupMinutes   == Min(15, Max(5, RoundTenth(totalMinutes)))
        cooldownMinutes == Min(10, Max(5, RoundTenth(totalMinutes)))
        mainMinutes     == totalMinutes - warmupMinutes - cooldownMinutes
    IN << <<0, 40>>,
          <<warmupMinutes * TicksPerMinute, 65>>,
          <<warmupMinutes * TicksPerMinute, mainPercent>>,
          <<(warmupMinutes + mainMinutes) * TicksPerMinute, mainPercent>>,
          <<(warmupMinutes + mainMinutes) * TicksPerMinute, 60>>,
          <<totalMinutes * TicksPerMinute, 40>> >>

ergDataPoints(w) ==
    IF w.structure # undefined THEN generateDataPoints(w.structure[1])
    ELSE generateSimpleDataPoints(w)

\* description.replace(/[\r\n]/g, " ")
ReplaceNewlines(text) ==
    [i \in 1..Len(text) |-> IF text[i] \in {"\n", "\r"} THEN " " ELSE text[i]]

ergDescription(w) ==
    ReplaceNewlines(w.name \o (IF w.description # <<>>
                               THEN <<" ", "-", " ">> \o w.description ELSE <<>>))

\* The file is the header fields and the data lines; a data line is
\* <<minutes.toFixed(2) in hundredths, value as an integer>>.
generateMrc(w, settings) ==
    IF ~isErgSupported(w.sport)
    THEN Throw("ERG/MRC export only supports bike workouts")
    ELSE LET dataPoints == ergDataPoints(w)
         IN Return([format      |-> "mrc",
                    description |-> ergDescription(w),
                    fileName    |-> w.name,
                    columns     |-> "MINUTES PERCENT",
                    data        |-> [i \in 1..Len(dataPoints) |->
                                       <<toFixed2Minutes(dataPoints[i][1]), dataPoints[i][2]>>]])

generateErg(w, settings) ==
    IF ~isErgSupported(w.sport)
    THEN Throw("ERG/MRC export only supports bike workouts")
    ELSE LET ftp == IF settings.bike.ftp = undefined \/ settings.bike.ftp[1] = 0
                    THEN 200 ELSE settings.bike.ftp[1]
             dataPoints == ergDataPoints(w)
         IN Return([format      |-> "erg",
                    description |-> ergDescription(w),
                    fileName    |-> w.name,
                    ftp         |-> ftp,
                    columns     |-> "MINUTES WATTS",
                    data        |-> [i \in 1..Len(dataPoints) |->
                                       <<toFixed2Minutes(dataPoints[i][1]),
                                         (dataPoints[i][2] * ftp + 50) \div 100>>]])

(***************************************************************************)
(* zwo.ts.  Percent intensities are held in tenths of a percent (value *   *)
(* 0.6 and value * 0.5 stay exact), decimal powers in 1/10000, and a       *)
(* printed power (toFixed(2)) in hundredths.                               *)
(***************************************************************************)
isZwoSupported(sport) == sport = "bike" \/ sport = "run"

\* str.replace(/c/g, replacement) for a one-character pattern c
ReplaceAll(text, c, replacement) ==
    IF \A i \in 1..Len(text) : text[i] # c THEN text
    ELSE Flatten([i \in 1..Len(text) |-> IF text[i] = c THEN replacement ELSE <<text[i]>>])

\* Faulty variant: the ampersand is replaced last.
escapeXmlAmpersandLast(str) ==
    LET s1 == ReplaceAll(str, "<", <<"&", "l", "t", ";">>)
        s2 == ReplaceAll(s1, ">", <<"&", "g", "t", ";">>)
        s3 == ReplaceAll(s2, "\"", <<"&", "q", "u", "o", "t", ";">>)
        s4 == ReplaceAll(s3, "'", <<"&", "a", "p", "o", "s", ";">>)
    IN ReplaceAll(s4, "&", <<"&", "a", "m", "p", ";">>)

escapeXml(str) ==
    LET s1 == ReplaceAll(str, "&", <<"&", "a", "m", "p", ";">>)
        s2 == ReplaceAll(s1, "<", <<"&", "l", "t", ";">>)
        s3 == ReplaceAll(s2, ">", <<"&", "g", "t", ";">>)
        s4 == ReplaceAll(s3, "\"", <<"&", "q", "u", "o", "t", ";">>)
    IN ReplaceAll(s4, "'", <<"&", "a", "p", "o", "s", ";">>)

\* a percent value of the input, in tenths of a percent
PercentTenths(value) == value * 10

\* intensity / 100, from tenths of a percent to 1/10000
intensityToDecimal(intensityTenths) == (intensityTenths * 1000) \div 100

\* power.toFixed(2), in hundredths
toFixed2Power(decimal) == (decimal + 50) \div 100

durationToSeconds(value, unit) ==
    CASE unit = "seconds" -> value
      [] unit = "minutes" -> value * 60
      [] unit = "hours"   -> value * 3600
      [] OTHER            -> value

getZwoSportType(sport) == IF sport = "run" THEN "run" ELSE "bike"

generateWarmup(step) ==
    LET duration       == durationToSeconds(step.duration.value, step.duration.unit)
        intensityValue == PercentTenths(step.intensity.value)
        startPower     == intensityToDecimal(
                            IF step.intensity.valueLow # undefined
                            THEN PercentTenths(step.intensity.valueLow[1])
                            ELSE (intensityValue * 6) \div 10)
        endPower       == intensityToDecimal(
                            IF step.intensity.valueHigh # undefined
                            THEN PercentTenths(step.intensity.valueHigh[1])
                            ELSE intensityValue)
    IN [tag |-> "Warmup", Duration |-> duration,
        PowerLow |-> toFixed2Power(startPower), PowerHigh |-> toFixed2Power(endPower)]

generateCooldown(step) ==
    LET duration       == durationToSeconds(step.duration.value, step.duration.unit)
        intensityValue == PercentTenths(step.intensity.value)
        startPower     == intensityToDecimal(
                            IF step.intensity.valueHigh # undefined
                            THEN PercentTenths(step.intensity.valueHigh[1])
                            ELSE intensityValue)
        endPower       == intensityToDecimal(
                            IF step.intensity.valueLow # undefined
                            THEN PercentTenths(step.intensity.valueLow[1])
                            ELSE (intensityValue * 5) \div 10)
    IN [tag |-> "Cooldown", Duration |-> duration,
        PowerLow |-> toFixed2Power(endPower), PowerHigh |-> toFixed2Power(startPower)]

\* The cadence attributes of a SteadyState or Ramp element.
zwoCadenceAttr(step) ==
    IF step.cadence = undefined THEN [none |-> TRUE]
    ELSE LET cadence == step.cadence[1]
         IN IF cadence.high # cadence.low
            THEN [CadenceLow |-> OrElse(cadence.low, 90), CadenceHigh |-> OrElse(cadence.high, 100)]
            ELSE [Cadence |-> OrElse(cadence.low, 90)]

generateSteadyState(step, isRamp) ==
    LET duration    == durationToSeconds(step.duration.value, step.duration.unit)
        power       == intensityToDecimal(PercentTenths(step.intensity.value))
        cadenceAttr == zwoCadenceAttr(step)
    IN IF isRamp /\ step.intensity.valueLow # undefined /\ step.intensity.valueHigh # undefined
       THEN [tag |-> "Ramp", Duration |-> duration,
             PowerLow  |-> toFixed2Power(intensityToDecimal(PercentTenths(step.intensity.valueLow[1]))),
             PowerHigh |-> toFixed2Power(intensityToDecimal(PercentTenths(step.intensity.valueHigh[1]))),
             cadence |-> cadenceAttr]
       ELSE [tag |-> "SteadyState", Duration |-> duration, Power |-> toFixed2Power(power),
             cadence |-> cadenceAttr]

\* steps.find(pred): the first step whose type is in types, or undefined
RECURSIVE FindStep(_, _)
FindStep(steps, types) ==
    IF steps = <<>> THEN undefined
    ELSE IF Head(steps).type \in types THEN Some(Head(steps))
    ELSE FindStep(Tail(steps), types)

\* The returned string is one line per element: the elements, in order.
generateIntervalSet(intervalSet) ==
    LET steps        == intervalSet.steps
        workStep     == FindStep(steps, {"work"})
        recoveryStep == FindStep(steps, {"recovery", "rest"})
    IN IF workStep = undefined
       THEN [i \in 1..Len(steps) |-> generateSteadyState(steps[i], FALSE)]
       ELSE LET onDuration  == durationToSeconds(workStep[1].duration.value,
                                                 workStep[1].duration.unit)
                onPower     == intensityToDecimal(PercentTenths(workStep[1].intensity.value))
                offDuration == IF recoveryStep # undefined
                               THEN durationToSeconds(recoveryStep[1].duration.value,
                                                      recoveryStep[1].duration.unit)
                               ELSE 60
                offPower    == IF recoveryStep # undefined
                               THEN intensityToDecimal(PercentTenths(recoveryStep[1].intensity.value))
                               ELSE 5000
                cadenceAttr == IF workStep[1].cadence # undefined
                               THEN [Cadence |-> OrElse(workStep[1].cadence[1].low, 90)]
                               ELSE [none |-> TRUE]
            IN << [tag |-> "IntervalsT", Repeat |-> intervalSet.repeats,
                   OnDuration |-> onDuration, OffDuration |-> offDuration,
                   OnPower |-> toFixed2Power(onPower), OffPower |-> toFixed2Power(offPower),
                   cadence |-> cadenceAttr] >>

\* segments: one entry per segments.push(...), each entry the lines pushed.
generateSegmentsFromStructure(structure) ==
    LET warmup   == [i \in 1..Len(structure.warmup) |->
                       IF structure.warmup[i].type = "warmup"
                       THEN <<generateWarmup(structure.warmup[i])>>
                       ELSE <<generateSteadyState(structure.warmup[i], FALSE)>>]
        main     == [i \in 1..Len(structure.main) |->
                       IF IsIntervalSet(structure.main[i])
                       THEN generateIntervalSet(structure.main[i])
                       ELSE <<generateSteadyState(structure.main[i], FALSE)>>]
        cooldown == [i \in 1..Len(structure.cooldown) |->
                       IF structure.cooldown[i].type = "cooldown"
                       THEN <<generateCooldown(structure.cooldown[i])>>
                       ELSE <<generateSteadyState(structure.cooldown[i], FALSE)>>]
    IN warmup \o main \o cooldown

zwoMainPower(type) ==
    CASE type = "recovery"  -> 5500
      [] type = "endurance" -> 6500
      [] type = "tempo"     -> 8000
      [] type = "threshold" -> 9500
      [] type = "vo2max"    -> 11000
      [] type = "intervals" -> 8500
      [] type = "long"      -> 6500
      [] OTHER              -> 6500

\* Faulty variant: a negative main phase is clamped to nothing.
generateSimpleWorkoutClampedMain(w) ==
    LET totalMinutes    == TotalMinutesOf(w)
        warmupMinutes   == Min(15, Max(5, RoundTenth(totalMinutes)))
        mainPower       == zwoMainPower(w.type)
        cooldownMinutes == Min(10, Max(5, RoundTenth(totalMinutes)))
        mainMinutes     == Max(0, totalMinutes - warmupMinutes - cooldownMinutes)
    IN << <<[tag |-> "Warmup", Duration |-> warmupMinutes * 60,
             PowerLow |-> 40, PowerHigh |-> 65]>>,
          <<[tag |-> "SteadyState", Duration |-> mainMinutes * 60,
             Power |-> toFixed2Power(mainPower), cadence |-> [none |-> TRUE]]>>,
          <<[tag |-> "Cooldown", Duration |-> cooldownMinutes * 60,
             PowerLow |-> 40, PowerHigh |-> 60]>> >>

generateSimpleWorkout(w) ==
    LET totalMinutes    == TotalMinutesOf(w)
        warmupMinutes   == Min(15, Max(5, RoundTenth(totalMinutes)))
        mainPower       == zwoMainPower(w.type)
        cooldownMinutes == Min(10, Max(5, RoundTenth(totalMinutes)))
        mainMinutes     == totalMinutes - warmupMinutes - cooldownMinutes
    IN << <<[tag |-> "Warmup", Duration |-> warmupMinutes * 60,
             PowerLow |-> 40, PowerHigh |-> 65]>>,
          <<[tag |-> "SteadyState", Duration |-> mainMinutes * 60,
             Power |-> toFixed2Power(mainPower), cadence |-> [none |-> TRUE]]>>,
          <<[tag |-> "Cooldown", Duration |-> cooldownMinutes * 60,
             PowerLow |-> 40, PowerHigh |-> 60]>> >>

\* humanReadable.replace(/\\n/g, "\n"): a backslash followed by n becomes a newline
RECURSIVE UnescapeNewlines(_)
UnescapeNewlines(text) ==
    IF Len(text) < 2 THEN text
    ELSE IF text[1] = "\\" /\ text[2] = "n"
         THEN <<"\n">> \o UnescapeNewlines(SubSeq(text, 3, Len(text)))
         ELSE <<text[1]>> \o UnescapeNewlines(Tail(text))

generateZwo(w, settings) ==
    IF ~isZwoSupported(w.sport)
    THEN Throw("ZWO export not supported for " \o w.sport \o " workouts")
    ELSE LET sportType   == getZwoSportType(w.sport)
             segments    == IF w.structure # undefined
                            THEN generateSegmentsFromStructure(w.structure[1])
                            ELSE generateSimpleWorkout(w)
             description == escapeXml(
                              w.description \o
                              (IF w.humanReadable # undefined /\ w.humanReadable[1] # <<>>
                               THEN <<"\n", "\n">> \o UnescapeNewlines(w.humanReadable[1])
                               ELSE <<>>))
         IN Return([format      |-> "zwo",
                    author      |-> "Claude Coach",
                    name        |-> escapeXml(w.name),
                    description |-> description,
                    sportType   |-> sportType,
                    segments    |-> segments])

\* The elements of the workout element, in document order.
ZwoElements(content) == Flatten(content.segments)

(***************************************************************************)
(* fit.ts                                                                  *)
(***************************************************************************)
isFitSupported(sport) == sport # "rest" /\ sport # "race"

getFitSport(sport) ==
    CASE sport = "swim"     -> "swimming"
      [] sport = "bike"     -> "cycling"
      [] sport = "run"      -> "running"
      [] sport = "strength" -> "training"
      [] sport = "brick"    -> "multisport"
      [] OTHER              -> "generic"

getFitSubSport(sport) ==
    CASE sport = "swim"     -> "lap_swimming"
      [] sport = "bike"     -> "road"
      [] sport = "run"      -> "road"
      [] sport = "strength" -> "strength_training"
      [] sport = "brick"    -> "triathlon"
      [] OTHER              -> "generic"

getStepIntensity(stepType) ==
    CASE stepType = "warmup"   -> "warmup"
      [] stepType = "cooldown" -> "cooldown"
      [] stepType = "rest"     -> "rest"
      [] stepType = "recovery" -> "recovery"
      [] stepType = "work"     -> "active"
      [] OTHER                 -> "active"

getDurationValue(value, unit) ==
    CASE unit = "seconds"    -> value * 1000
      [] unit = "minutes"    -> value * 60 * 1000
      [] unit = "hours"      -> value * 3600 * 1000
      [] unit = "meters"     -> value * 100
      [] unit = "kilometers" -> value * 100000
      [] unit = "miles"      -> value * 160934
      [] OTHER               -> value * 1000

getDurationType(unit) ==
    CASE unit \in {"seconds", "minutes", "hours"}    -> "time"
      [] unit \in {"meters", "kilometers", "miles"}  -> "distance"
      [] OTHER                                       -> "time"

\* Faulty variant: one heart-rate bound is enough for the custom range.
fitTargetEitherBound(intensity) ==
    LET intensityValue == intensity.value
    IN CASE intensity.unit = "percent_ftp" ->
              [targetType |-> "power", targetValue |-> Some(0),
               customTargetValueLow  |-> Some(OrElse(intensity.valueLow, intensityValue - 5)),
               customTargetValueHigh |-> Some(OrElse(intensity.valueHigh, intensityValue + 5))]
         [] intensity.unit \in {"percent_lthr", "hr_zone"} ->
              IF intensity.valueLow # undefined \/ intensity.valueHigh # undefined
              THEN [targetType |-> "heart_rate", targetValue |-> Some(0),
                    customTargetValueLow  |-> intensity.valueLow,
                    customTargetValueHigh |-> intensity.valueHigh]
              ELSE [targetType |-> "heart_rate", targetValue |-> Some(intensityValue),
                    customTargetValueLow |-> undefined, customTargetValueHigh |-> undefined]
         [] OTHER ->
              [targetType |-> "open", targetValue |-> undefined,
               customTargetValueLow |-> undefined, customTargetValueHigh |-> undefined]

\* The target fields of a step record, chosen by the intensity unit.
fitTarget(intensity) ==
    LET intensityValue == intensity.value
    IN CASE intensity.unit = "percent_ftp" ->
              [targetType |-> "power", targetValue |-> Some(0),
               customTargetValueLow  |-> Some(OrElse(intensity.valueLow, intensityValue - 5)),
               customTargetValueHigh |-> Some(OrElse(intensity.valueHigh, intensityValue + 5))]
         [] intensity.unit \in {"percent_lthr", "hr_zone"} ->
              IF intensity.valueLow # undefined /\ intensity.valueHigh # undefined
              THEN [targetType |-> "heart_rate", targetValue |-> Some(0),
                    customTargetValueLow  |-> Some(intensity.valueLow[1]),
                    customTargetValueHigh |-> Some(intensity.valueHigh[1])]
              ELSE [targetType |-> "heart_rate", targetValue |-> Some(intensityValue),
                    customTargetValueLow |-> undefined, customTargetValueHigh |-> undefined]
         [] OTHER ->
              [targetType |-> "open", targetValue |-> undefined,
               customTargetValueLow |-> undefined, customTargetValueHigh |-> undefined]

\* The closure addStep of generateStepsFromStructure; acc holds steps and stepIndex.
fitAddStep(acc, step) ==
    LET target  == fitTarget(step.intensity)
        fitStep == [messageIndex    |-> acc.stepIndex,
                    workoutStepName |-> "",
                    intensity       |-> getStepIntensity(step.type),
                    durationType    |-> getDurationType(step.duration.unit),
                    durationValue   |-> getDurationValue(step.duration.value, step.duration.unit),
                    notes           |-> "",
                    targetType      |-> target.targetType,
                    targetValue     |-> target.targetValue,
                    customTargetValueLow    |-> target.customTargetValueLow,
                    customTargetValueHigh   |-> target.customTargetValueHigh,
                    customTargetCadenceLow  |-> IF step.cadence # undefined
                                                THEN Some(OrElse(step.cadence[1].low, 80))
                                                ELSE undefined,
                    customTargetCadenceHigh |-> IF step.cadence # undefined
                                                THEN Some(OrElse(step.cadence[1].high, 100))
                                                ELSE undefined]
    IN [steps |-> Append(acc.steps, fitStep), stepIndex |-> acc.stepIndex + 1]

RECURSIVE fitAddSteps(_, _)
fitAddSteps(acc, steps) ==
    IF steps = <<>> THEN acc
    ELSE fitAddSteps(fitAddStep(acc, Head(steps)), Tail(steps))

\* array.splice(index, 0, item): insert before position index (0-based),
\* at the end when index is past the end
Splice(array, index, item) ==
    LET at == Min(index, Len(array))
    IN SubSeq(array, 1, at) \o <<item>> \o SubSeq(array, at + 1, Len(array))

\* The closure addIntervalSet of generateStepsFromStructure.
fitAddIntervalSet(acc, intervalSet) ==
    LET repeatStepIndex == acc.stepIndex
        reserved        == [steps |-> acc.steps, stepIndex |-> acc.stepIndex + 1]
        withChildren    == fitAddSteps(reserved, intervalSet.steps)
        repeatStep      == [messageIndex    |-> repeatStepIndex,
                            workoutStepName |-> "Intervals",
                            durationType    |-> "repeat_until_steps_cmplt",
                            durationValue   |-> intervalSet.repeats,
                            targetType      |-> "open",
                            intensity       |-> "interval"]
    IN [steps     |-> Splice(withChildren.steps, repeatStepIndex, repeatStep),
        stepIndex |-> withChildren.stepIndex + 1]

RECURSIVE fitAddMain(_, _)
fitAddMain(acc, main) ==
    IF main = <<>> THEN acc
    ELSE LET item == Head(main)
         IN fitAddMain(IF IsIntervalSet(item) THEN fitAddIntervalSet(acc, item)
                                              ELSE fitAddStep(acc, item),
                       Tail(main))

generateStepsFromStructure(structure) ==
    LET start       == [steps |-> <<>>, stepIndex |-> 0]
        afterWarmup == fitAddSteps(start, structure.warmup)
        afterMain   == fitAddMain(afterWarmup, structure.main)
        afterCool   == fitAddSteps(afterMain, structure.cooldown)
    IN [steps |-> afterCool.steps, totalSteps |-> Len(afterCool.steps)]

fitMainIntensity(type) ==
    IF type = "recovery" THEN "recovery"
    ELSE IF type = "rest" THEN "rest"
    ELSE IF type = "intervals" \/ type = "vo2max" THEN "interval"
    ELSE "active"

\* Faulty variant: the cool-down is clamped like the warm-up.
generateSimpleStepsLongCooldown(w) ==
    LET totalMinutes    == TotalMinutesOf(w)
        warmupMinutes   == Min(15, Max(5, RoundTenth(totalMinutes)))
        cooldownMinutes == Min(15, Max(5, RoundTenth(totalMinutes)))
        mainMinutes     == totalMinutes - warmupMinutes - cooldownMinutes
        step(index, name, intensity, minutes) ==
            [messageIndex |-> index, workoutStepName |-> name, intensity |-> intensity,
             durationType |-> "time", durationValue |-> minutes * 60 * 1000,
             targetType |-> "open"]
    IN [steps |-> << step(0, "Warm Up", "warmup", warmupMinutes),
                     step(1, "Main Set", fitMainIntensity(w.type), mainMinutes),
                     step(2, "Cool Down", "cooldown", cooldownMinutes) >>,
        totalSteps |-> 3]

generateSimpleSteps(w) ==
    LET totalMinutes    == TotalMinutesOf(w)
        warmupMinutes   == Min(15, Max(5, RoundTenth(totalMinutes)))
        cooldownMinutes == Min(10, Max(5, RoundTenth(totalMinutes)))
        mainMinutes     == totalMinutes - warmupMinutes - cooldownMinutes
    IN [steps |->
          << [messageIndex |-> 0, workoutStepName |-> "Warm Up", intensity |-> "warmup",
              durationType |-> "time", durationValue |-> warmupMinutes * 60 * 1000,
              targetType |-> "open"],
             [messageIndex |-> 1, workoutStepName |-> "Main Set",
              intensity |-> fitMainIntensity(w.type),
              durationType |-> "time", durationValue |-> mainMinutes * 60 * 1000,
              targetType |-> "open", notes |-> w.description],
             [messageIndex |-> 2, workoutStepName |-> "Cool Down", intensity |-> "cooldown",
              durationType |-> "time", durationValue |-> cooldownMinutes * 60 * 1000,
              targetType |-> "open"] >>,
        totalSteps |-> 3]

\* What the delegated @garmin/fitsdk Encoder does with the records: it frames
\* them ("ok"), throws an Error ("error"), or throws something else ("value").
SdkBehaviours == {"ok", "error", "value"}

\* The content is the list of records handed to encoder.onMesg, in order; the
\* random serialNumber and the creation time of the file id are left out.
generateFit(w, settings, sdk) ==
    IF ~isFitSupported(w.sport)
    THEN Throw("FIT export not supported for " \o w.sport \o " workouts")
    ELSE LET generated == IF w.structure # undefined
                          THEN generateStepsFromStructure(w.structure[1])
                          ELSE generateSimpleSteps(w)
         IN CASE sdk = "error" -> Throw("FIT encoder failure")
              [] sdk = "value" -> ThrowNonError
              [] OTHER ->
                   Return([format  |-> "fit",
                           fileId  |-> [type |-> "workout", manufacturer |-> "development",
                                        product |-> 1],
                           workout |-> [workoutName   |-> w.name,
                                        sport         |-> getFitSport(w.sport),
                                        subSport      |-> getFitSubSport(w.sport),
                                        numValidSteps |-> generated.totalSteps],
                           steps   |-> generated.steps])

(***************************************************************************)
(* ics.ts and the two helpers of utils.ts it calls.  A JavaScript string   *)
(* is a sequence of UTF-16 code units: an ASCII unit is a one-character    *)
(* string, any other unit is the four hexadecimal digits of its value      *)
(* ("00E9", "D83C").                                                       *)
(***************************************************************************)
\* The code units of an ASCII literal.
Chars(str) == [i \in 1..Len(str) |-> SubSeq(str, i, i)]

\* parts.join(separator)
Join(parts, separator) ==
    Flatten([i \in 1..Len(parts) |-> IF i = 1 THEN parts[i] ELSE separator \o parts[i]])

CRLF == <<"\r", "\n">>

\* utils.ts formatDuration
formatDuration(minutes) ==
    IF minutes = undefined \/ minutes[1] = 0 THEN <<>>
    ELSE LET h == minutes[1] \div 60
             m == minutes[1] % 60
         IN IF h > 0
            THEN IF m > 0 THEN Chars(ToString(h)) \o <<"h", " ">> \o Chars(ToString(m)) \o <<"m">>
                 ELSE Chars(ToString(h)) \o <<"h">>
            ELSE Chars(ToString(m)) \o <<"m">>

\* utils.ts getSportIcon: one emoji, a surrogate pair
getSportIcon(sport) ==
    CASE sport = "swim"     -> <<"D83C", "DFCA">>
      [] sport = "bike"     -> <<"D83D", "DEB4">>
      [] sport = "run"      -> <<"D83C", "DFC3">>
      [] sport = "strength" -> <<"D83D", "DCAA">>
      [] sport = "brick"    -> <<"D83D", "DD25">>
      [] sport = "race"     -> <<"D83C", "DFC6">>
      [] sport = "rest"     -> <<"D83D", "DECC">>
      [] OTHER              -> <<"D83C", "DFC3">>

\* dateStr.replace(/-/g, "")
formatIcsDate(dateStr) == ReplaceAll(dateStr, "-", <<>>)

\* str.replace(/\\n/g, "\\n"): every backslash followed by n is written again
\* (two matches cannot overlap)
ReplaceBackslashN(text) ==
    LET matchAt(i) == i >= 1 /\ i < Len(text) /\ text[i] = "\\" /\ text[i + 1] = "n"
    IN IF \A i \in 1..Len(text) : ~matchAt(i) THEN text
       ELSE Flatten([i \in 1..Len(text) |->
                  IF matchAt(i) THEN <<"\\", "n">>
                  ELSE IF matchAt(i - 1) THEN <<>>
                  ELSE <<text[i]>>])

\* Faulty variant: the backslash is escaped last, after the other three.
escapeIcsTextBackslashLast(text) ==
    LET s1 == ReplaceAll(text, ";", <<"\\", ";">>)
        s2 == ReplaceAll(s1, ",", <<"\\", ",">>)
        s3 == ReplaceAll(s2, "\n", <<"\\", "n">>)
    IN ReplaceAll(s3, "\\", <<"\\", "\\">>)

escapeIcsText(text) ==
    LET s1 == ReplaceAll(text, "\\", <<"\\", "\\">>)
        s2 == ReplaceAll(s1, ";", <<"\\", ";">>)
        s3 == ReplaceAll(s2, ",", <<"\\", ",">>)
        s4 == ReplaceAll(s3, "\n", <<"\\", "n">>)
    IN ReplaceBackslashN(s4)

FoldMaxLength == 75

FoldContinuationLength == 74

\* The while loop of foldLine: the continuation lines of what remains.
RECURSIVE foldContinuations(_)
foldContinuations(remaining) ==
    IF Len(remaining) = 0 THEN <<>>
    ELSE << <<" ">> \o SubSeq(remaining, 1, Min(FoldContinuationLength, Len(remaining))) >>
           \o foldContinuations(SubSeq(remaining, FoldContinuationLength + 1, Len(remaining)))

foldLine(line) ==
    IF Len(line) <= FoldMaxLength THEN line
    ELSE Join(<<SubSeq(line, 1, FoldMaxLength)>>
                \o foldContinuations(SubSeq(line, FoldMaxLength + 1, Len(line))),
              CRLF)

generateUid(workoutId, date) == workoutId \o <<"-">> \o date \o Chars("@claude-coach")

(***************************************************************************)
(* index.ts: downloadFile, sanitizeFilename, getAvailableFormats           *)
(***************************************************************************)
MaxFilenameLength == 100

InvalidFilenameChars == {"<", ">", ":", "\"", "/", "\\", "|", "?", "*"}

Whitespace == {" ", "\t", "\n", "\r"}

\* .replace(/\s+/g, "_"): every maximal run of whitespace becomes one underscore
RECURSIVE CollapseWhitespace(_)
CollapseWhitespace(text) ==
    IF text = <<>> THEN <<>>
    ELSE IF Head(text) \in Whitespace
         THEN IF Len(text) > 1 /\ text[2] \in Whitespace
              THEN CollapseWhitespace(Tail(text))
              ELSE <<"_">> \o CollapseWhitespace(Tail(text))
         ELSE <<Head(text)>> \o CollapseWhitespace(Tail(text))

\* Faulty variant: whitespace is collapsed before the characters are stripped.
sanitizeFilenameCollapseFirst(name) ==
    LET collapsed == CollapseWhitespace(name)
        stripped  == SelectSeq(collapsed, LAMBDA ch : ch \notin InvalidFilenameChars)
    IN SubSeq(stripped, 1, Min(MaxFilenameLength, Len(stripped)))

sanitizeFilename(name) ==
    LET stripped  == SelectSeq(name, LAMBDA ch : ch \notin InvalidFilenameChars)
        collapsed == CollapseWhitespace(stripped)
    IN SubSeq(collapsed, 1, Min(MaxFilenameLength, Len(collapsed)))

\* The five DOM operations of downloadFile, in program order.
DownloadOps == <<"createObjectURL", "appendChild", "click", "removeChild", "revokeObjectURL">>

\* What the browser does during a download: every operation succeeds ("none"),
\* or the named operation throws.
DownloadFaults == {"none"} \cup { DownloadOps[i] : i \in 1..Len(DownloadOps) }

EmptyBrowser == [urls |-> {}, body |-> {}, log |-> <<>>]

\* Faulty variant: the blob of the previous download is kept and used again.
DomOpCachedBlob(b, op, url, file) ==
    LET cached == IF b.log = <<>> THEN file
                  ELSE [file EXCEPT !.content = b.log[Len(b.log)].file.content]
        link   == [href |-> url, download |-> cached.filename]
        entry  == [op |-> op, url |-> url, file |-> cached]
    IN CASE op = "createObjectURL" -> [b EXCEPT !.urls = @ \cup {url}, !.log = Append(@, entry)]
         [] op = "appendChild"     -> [b EXCEPT !.body = @ \cup {link}, !.log = Append(@, entry)]
         [] op = "click"           -> [b EXCEPT !.log = Append(@, entry)]
         [] op = "removeChild"     -> [b EXCEPT !.body = @ \ {link}, !.log = Append(@, entry)]
         [] op = "revokeObjectURL" -> [b EXCEPT !.urls = @ \ {url}, !.log = Append(@, entry)]

\* One DOM operation on the link { href: url, download: filename }.
DomOp(b, op, url, file) ==
    LET link  == [href |-> url, download |-> file.filename]
        entry == [op |-> op, url |-> url, file |-> file]
    IN CASE op = "createObjectURL" -> [b EXCEPT !.urls = @ \cup {url}, !.log = Append(@, entry)]
         [] op = "appendChild"     -> [b EXCEPT !.body = @ \cup {link}, !.log = Append(@, entry)]
         [] op = "click"           -> [b EXCEPT !.log = Append(@, entry)]
         [] op = "removeChild"     -> [b EXCEPT !.body = @ \ {link}, !.log = Append(@, entry)]
         [] op = "revokeObjectURL" -> [b EXCEPT !.urls = @ \ {url}, !.log = Append(@, entry)]

RECURSIVE DomOps(_, _, _, _)
DomOps(b, ops, url, file) ==
    IF ops = <<>> THEN b
    ELSE DomOps(DomOp(b, Head(ops), url, file), Tail(ops), url, file)

\* Faulty variant: the link is never removed from the body.
downloadFileNoRemove(b, owner, content, filename, mimeType, fault) ==
    LET file == [owner |-> owner, filename |-> filename, mimeType |-> mimeType,
                 content |-> content]
        url  == Len(b.log) + 1
        ops  == SelectSeq(DownloadOps, LAMBDA op : op # "removeChild")
        done == IF fault = "none" THEN Len(ops)
                ELSE IF fault = "removeChild" THEN 3
                ELSE (CHOOSE i \in 1..Len(ops) : ops[i] = fault) - 1
    IN [browser |-> DomOps(b, SubSeq(ops, 1, done), url, file),
        outcome |-> IF fault = "none" THEN Return(undefined)
                    ELSE Throw("Failed to execute '" \o fault \o "'")]

\* downloadFile(content, filename, mimeType) on browser b; owner names the call
\* it is made from.  The operations before the faulty one take effect.
downloadFile(b, owner, content, filename, mimeType, fault) ==
    LET file == [owner |-> owner, filename |-> filename, mimeType |-> mimeType,
                 content |-> content]
        url  == Len(b.log) + 1
        done == IF fault = "none" THEN Len(DownloadOps)
                ELSE (CHOOSE i \in 1..Len(DownloadOps) : DownloadOps[i] = fault) - 1
    IN [browser |-> DomOps(b, SubSeq(DownloadOps, 1, done), url, file),
        outcome |-> IF fault = "none" THEN Return(undefined)
                    ELSE Throw("Failed to execute '" \o fault \o "'")]

\* Faulty variant: the FIT check lets every sport through.
getAvailableFormatsFitAlways(sport) ==
    LET f1 == IF isZwoSupported(sport) THEN <<"zwo">> ELSE <<>>
        f2 == Append(f1, "fit")
    IN IF isErgSupported(sport) THEN Append(f2, "mrc") ELSE f2

getAvailableFormats(sport) ==
    LET f1 == IF isZwoSupported(sport) THEN <<"zwo">> ELSE <<>>
        f2 == IF isFitSupported(sport) THEN Append(f1, "fit") ELSE f1
    IN IF isErgSupported(sport) THEN Append(f2, "mrc") ELSE f2

(***************************************************************************)
(* ics.ts: generateVevent, generateIcs; index.ts: exportPlanToCalendar     *)
(***************************************************************************)
\* str.trim()
RECURSIVE Trim(_)
Trim(text) ==
    IF text = <<>> THEN text
    ELSE IF Head(text) \in Whitespace THEN Trim(Tail(text))
    ELSE IF text[Len(text)] \in Whitespace THEN Trim(SubSeq(text, 1, Len(text) - 1))
    ELSE text

\* sport.charAt(0).toUpperCase() + sport.slice(1)
Capitalize(sport) ==
    LET first == CASE SubSeq(sport, 1, 1) = "s" -> "S"
                   [] SubSeq(sport, 1, 1) = "b" -> "B"
                   [] SubSeq(sport, 1, 1) = "r" -> "R"
                   [] OTHER                     -> SubSeq(sport, 1, 1)
    IN <<first>> \o Chars(SubSeq(sport, 2, Len(sport)))

\* The two characters backslash, n that the code writes as "\\n".
BackslashN == <<"\\", "n">>

\* The description text of generateVevent before it is trimmed and escaped.
veventDescription(w) ==
    LET duration == formatDuration(w.durationMinutes)
        d1 == IF w.description # <<>>
              THEN w.description \o BackslashN \o BackslashN ELSE <<>>
        d2 == IF duration # <<>>
              THEN Chars("Duration: ") \o duration \o BackslashN ELSE <<>>
        d3 == IF w.primaryZone # undefined /\ w.primaryZone[1] # <<>>
              THEN Chars("Target Zone: ") \o w.primaryZone[1] \o BackslashN ELSE <<>>
        d4 == IF w.humanReadable # undefined /\ w.humanReadable[1] # <<>>
              THEN BackslashN \o Chars("Workout Structure:") \o BackslashN
                     \o ReplaceBackslashN(w.humanReadable[1])
              ELSE <<>>
    IN d1 \o d2 \o d3 \o d4

\* `now` is new Date().toISOString() without its punctuation and milliseconds.
generateVevent(w, day, planName, now) ==
    LET uid         == generateUid(w.id, day.date)
        dateStr     == formatIcsDate(day.date)
        summary     == escapeIcsText(getSportIcon(w.sport) \o <<" ">>
                                       \o Capitalize(w.sport) \o <<":", " ">>
                                       \o w.name)
        description == escapeIcsText(Trim(veventDescription(w)))
        categories  == Join(<<Chars(w.sport), Chars(w.type), planName>>, <<",">>)
    IN Join(<< Chars("BEGIN:VEVENT"),
               foldLine(Chars("UID:") \o uid),
               Chars("DTSTAMP:") \o now \o <<"Z">>,
               Chars("DTSTART;VALUE=DATE:") \o dateStr,
               Chars("DTEND;VALUE=DATE:") \o dateStr,
               foldLine(Chars("SUMMARY:") \o summary),
               foldLine(Chars("DESCRIPTION:") \o description),
               foldLine(Chars("CATEGORIES:") \o escapeIcsText(categories)),
               Chars("TRANSP:TRANSPARENT"),
               Chars("END:VEVENT") >>,
            CRLF)

\* The events of the three nested loops of generateIcs, in loop order.
workoutEvents(plan, eventName, now) ==
    Flatten([i \in 1..Len(plan.weeks) |->
      Flatten([j \in 1..Len(plan.weeks[i].days) |->
        LET day  == plan.weeks[i].days[j]
            kept == SelectSeq(day.workouts, LAMBDA w : ~(w.sport = "rest" /\ w.name = <<>>))
        IN [k \in 1..Len(kept) |-> generateVevent(kept[k], day, eventName, now)]])])

raceDayEvent(eventName, eventDate, now) ==
    Join(<< Chars("BEGIN:VEVENT"),
            Chars("UID:race-day@claude-coach"),
            Chars("DTSTAMP:") \o now \o <<"Z">>,
            Chars("DTSTART;VALUE=DATE:") \o formatIcsDate(eventDate),
            Chars("DTEND;VALUE=DATE:") \o formatIcsDate(eventDate),
            foldLine(Chars("SUMMARY:") \o <<"D83C", "DFC6">> \o Chars(" RACE DAY: ")
                       \o escapeIcsText(eventName)),
            foldLine(Chars("DESCRIPTION:")
                       \o escapeIcsText(Chars("Race day for ") \o eventName \o <<"!">>)),
            Chars("CATEGORIES:race,") \o escapeIcsText(eventName),
            Chars("TRANSP:OPAQUE"),
            Chars("END:VEVENT") >>,
         CRLF)

icsHeader(eventName, eventDate) ==
    Join(<< Chars("BEGIN:VCALENDAR"),
            Chars("VERSION:2.0"),
            Chars("PRODID:-//Claude Coach//Training Plan//EN"),
            Chars("CALSCALE:GREGORIAN"),
            Chars("METHOD:PUBLISH"),
            Chars("X-WR-CALNAME:") \o escapeIcsText(eventName) \o Chars(" Training"),
            Chars("X-WR-CALDESC:")
              \o escapeIcsText(Chars("Training plan for ") \o eventName
                                 \o Chars(" on ") \o eventDate) >>,
         CRLF)

\* Faulty variant: the race-day event is written before the workouts.
generateIcsRaceDayFirst(plan, now) ==
    LET eventName == OrElse(plan.meta.event, Chars("Training Plan"))
        eventDate == OrElse(plan.meta.eventDate, <<>>)
        events    == (IF eventDate # <<>>
                      THEN <<raceDayEvent(eventName, eventDate, now)>> ELSE <<>>)
                       \o workoutEvents(plan, eventName, now)
    IN icsHeader(eventName, eventDate) \o CRLF \o Join(events, CRLF) \o CRLF
         \o Chars("END:VCALENDAR")

generateIcs(plan, now) ==
    LET eventName == OrElse(plan.meta.event, Chars("Training Plan"))
        eventDate == OrElse(plan.meta.eventDate, <<>>)
        events    == workoutEvents(plan, eventName, now)
                       \o (IF eventDate # <<>>
                           THEN <<raceDayEvent(eventName, eventDate, now)>> ELSE <<>>)
    IN icsHeader(eventName, eventDate) \o CRLF \o Join(events, CRLF) \o CRLF
         \o Chars("END:VCALENDAR")

(***************************************************************************)
(* index.ts: exportWorkout                                                 *)
(***************************************************************************)
ExportFormats == {"zwo", "fit", "mrc", "ics"}

Extension(format) ==
    CASE format = "zwo" -> <<".", "z", "w", "o">>
      [] format = "fit" -> <<".", "f", "i", "t">>
      [] format = "mrc" -> <<".", "m", "r", "c">>

MimeType(format) ==
    CASE format = "zwo" -> "application/xml"
      [] format = "fit" -> "application/vnd.ant.fit"
      [] format = "mrc" -> "text/plain"

\* { success: false, filename: "", error }
Failure(error) == [success |-> FALSE, filename |-> <<>>, error |-> Some(error)]

\* { success: true, filename }
Success(filename) == [success |-> TRUE, filename |-> filename, error |-> undefined]

\* The early return of a case whose sport check fails, or of the default
\* case; undefined when the case goes on to its encoder.
exportWorkoutRefusal(w, format) ==
    CASE format = "zwo" ->
           IF ~isZwoSupported(w.sport)
           THEN Some(Failure("Zwift export only supports bike and run workouts"))
           ELSE undefined
      [] format = "fit" ->
           IF ~isFitSupported(w.sport)
           THEN Some(Failure("FIT export not supported for " \o w.sport \o " workouts"))
           ELSE undefined
      [] format = "mrc" ->
           IF ~isErgSupported(w.sport)
           THEN Some(Failure("MRC export only supports bike workouts"))
           ELSE undefined
      [] OTHER -> Some(Failure("Unknown format: " \o format))

\* Faulty variant: the catch clause rethrows.
exportWorkoutRethrow(thrown) == [status |-> "rejected", result |-> thrown]

\* catch (error) { return { success: false, filename: "", error: ... } }
exportWorkoutCatch(thrown) ==
    [status |-> "resolved",
     result |-> Failure(IF thrown.isError THEN thrown.error ELSE "Unknown error")]

\* Faulty variant: the file is downloaded whatever the encoder did.
exportWorkoutDeliverEager(b, owner, w, format, encoded, fault) ==
    LET safeName == sanitizeFilename(w.name)
        filename == safeName \o Extension(format)
        download == downloadFile(b, owner, encoded.content, filename, MimeType(format), fault)
    IN IF encoded.threw
       THEN [browser |-> download.browser, settled |-> exportWorkoutCatch(encoded)]
       ELSE IF download.outcome.threw
       THEN [browser |-> download.browser, settled |-> exportWorkoutCatch(download.outcome)]
       ELSE [browser |-> download.browser,
             settled |-> [status |-> "resolved", result |-> Success(filename)]]

\* The rest of a case once its encoder has settled with `encoded`: the
\* download and the success record, or the catch clause.
exportWorkoutDeliver(b, owner, w, format, encoded, fault) ==
    LET safeName == sanitizeFilename(w.name)
        filename == safeName \o Extension(format)
        download == downloadFile(b, owner, encoded.content, filename, MimeType(format), fault)
    IN IF encoded.threw
       THEN [browser |-> b, settled |-> exportWorkoutCatch(encoded)]
       ELSE IF download.outcome.threw
       THEN [browser |-> download.browser, settled |-> exportWorkoutCatch(download.outcome)]
       ELSE [browser |-> download.browser,
             settled |-> [status |-> "resolved", result |-> Success(filename)]]

\* exportPlanToCalendar(plan) on browser b: the try block and the catch
\* clause; icsContent is what generateIcs(plan) returned.  plan.meta.event is
\* handed to sanitizeFilename as it is: an undefined name makes name.replace
\* throw a TypeError.
exportPlanToCalendar(b, owner, plan, icsContent, fault) ==
    IF plan.meta.event = undefined
    THEN [browser |-> b,
          result  |-> Failure("Cannot read properties of undefined (reading 'replace')")]
    ELSE LET filename == sanitizeFilename(plan.meta.event[1]) \o Chars("_training_plan.ics")
             download == downloadFile(b, owner, icsContent, filename, "text/calendar", fault)
         IN IF download.outcome.threw
            THEN [browser |-> download.browser, result |-> Failure(download.outcome.error)]
            ELSE [browser |-> download.browser, result |-> Success(filename)]

(***************************************************************************)
(* index.ts: generateWorkoutContent, exportAllWorkouts                     *)
(***************************************************************************)
\* for week of plan.weeks, for day of week.days, for workout of day.workouts
PlanWorkouts(plan) ==
    Flatten([i \in 1..Len(plan.weeks) |->
               Flatten([j \in 1..Len(plan.weeks[i].days) |->
                          plan.weeks[i].days[j].workouts])])

\* Resolves with { content, filename } or with null; the encoder's outcome of
\* the format is `encoded` (the awaited generateFit for "fit").
generateWorkoutContent(w, format, encoded) ==
    LET safeName  == sanitizeFilename(w.name)
        supported == CASE format = "zwo" -> isZwoSupported(w.sport)
                       [] format = "fit" -> isFitSupported(w.sport)
                       [] format = "mrc" -> isErgSupported(w.sport)
                       [] OTHER          -> FALSE
    IN IF ~supported THEN Return(undefined)
       ELSE IF encoded.threw THEN Return(undefined)
       ELSE Return(Some([content |-> encoded.content,
                         filename |-> safeName \o Extension(format)]))

\* The sport checks at the top of the loop body: the workout is passed over.
batchSkips(w, format) ==
    \/ w.sport = "rest"
    \/ format = "zwo" /\ ~isZwoSupported(w.sport)
    \/ format = "fit" /\ ~isFitSupported(w.sport)
    \/ format = "mrc" /\ ~isErgSupported(w.sport)

\* zip.file(name, content): a file of that name is added or replaced.
zipFile(zip, name, content) ==
    [n \in DOMAIN zip \cup {name} |-> IF n = name THEN content ELSE zip[n]]

\* Faulty variant: the archive is generated whatever the count.
batchFinishAlways(c) == [c EXCEPT !.pc = "awaitZip"]

\* After the loops: the archive is generated and downloaded only if there are
\* files to export ("awaitZip" is `await zip.generateAsync(...)`); otherwise the
\* counts are returned at once.
batchFinish(c) ==
    IF c.exported > 0
    THEN [c EXCEPT !.pc = "awaitZip"]
    ELSE [c EXCEPT !.pc = "done", !.status = "resolved",
                   !.result = [exported |-> c.exported, skipped |-> c.skipped,
                               errors |-> c.errors]]

\* The loops from workout number c.idx on, up to the next await or to their
\* end: workouts passed over are counted, and a workout that is not passed over
\* suspends the call at `await generateWorkoutContent(...)` ("awaitContent").
RECURSIVE batchLoop(_)
batchLoop(c) ==
    LET workouts == PlanWorkouts(c.plan)
    IN IF c.idx > Len(workouts)
       THEN batchFinish(c)
       ELSE IF batchSkips(workouts[c.idx], c.format)
            THEN batchLoop([c EXCEPT !.skipped = @ + 1, !.idx = @ + 1])
            ELSE [c EXCEPT !.pc = "awaitContent"]

\* Faulty variant: a workout without content is counted as exported.
batchRecordCountsNull(c, got) ==
    LET w == PlanWorkouts(c.plan)[c.idx]
    IN IF got.threw
       THEN [c EXCEPT !.errors = Append(@, [name |-> w.name,
                                            message |-> IF got.isError THEN got.error
                                                        ELSE "Unknown error"]),
                      !.idx = @ + 1]
       ELSE IF got.content # undefined
       THEN [c EXCEPT !.zip = zipFile(@, got.content[1].filename, got.content[1].content),
                      !.exported = @ + 1, !.idx = @ + 1]
       ELSE [c EXCEPT !.exported = @ + 1, !.idx = @ + 1]

\* The loop body after `await generateWorkoutContent(...)` settled with `got`.
batchRecord(c, got) ==
    LET w == PlanWorkouts(c.plan)[c.idx]
    IN IF got.threw
       THEN [c EXCEPT !.errors = Append(@, [name |-> w.name,
                                            message |-> IF got.isError THEN got.error
                                                        ELSE "Unknown error"]),
                      !.idx = @ + 1]
       ELSE IF got.content # undefined
       THEN [c EXCEPT !.zip = zipFile(@, got.content[1].filename, got.content[1].content),
                      !.exported = @ + 1, !.idx = @ + 1]
       ELSE [c EXCEPT !.skipped = @ + 1, !.idx = @ + 1]

\* `${planName}_workouts_${format}.zip`
zipFilename(plan, format) ==
    sanitizeFilename(plan.meta.event)
      \o <<"_", "w", "o", "r", "k", "o", "u", "t", "s", "_">>
      \o SubSeq(Extension(format), 2, 4) \o <<".", "z", "i", "p">>

\* The encoder a format selects, on the workout; sdk is what the delegated FIT
\* encoder does.
Encode(w, format, settings, sdk) ==
    CASE format = "zwo" -> generateZwo(w, settings)
      [] format = "fit" -> generateFit(w, settings, sdk)
      [] format = "mrc" -> generateMrc(w, settings)

\* batchLoop, and the call of generateWorkoutContent it suspends on.  The call
\* record counts the encoder invocations and those of them that threw.
batchRun(c, sdk) ==
    LET c1 == batchLoop(c)
        w  == PlanWorkouts(c1.plan)[c1.idx]
        encoded == Encode(w, c1.format, c1.settings, sdk)
    IN IF c1.pc = "awaitContent"
       THEN [c1 EXCEPT !.pending = generateWorkoutContent(w, c1.format, encoded),
                       !.invoked = @ + 1,
                       !.failures = IF encoded.threw THEN @ + 1 ELSE @]
       ELSE c1

\* After `await zip.generateAsync(...)`: the archive is downloaded and the
\* counts are returned; an exception of downloadFile rejects the call.
batchDeliver(b, owner, c, fault) ==
    LET download == downloadFile(b, owner, c.zip, zipFilename(c.plan, c.format),
                                 "application/zip", fault)
    IN [browser |-> download.browser,
        call    |-> IF download.outcome.threw
                    THEN [c EXCEPT !.pc = "done", !.status = "rejected",
                                   !.result = download.outcome]
                    ELSE [c EXCEPT !.pc = "done", !.status = "resolved",
                                   !.result = [exported |-> c.exported, skipped |-> c.skipped,
                                               errors |-> c.errors]]]

(***************************************************************************)
(* Export calls                                                            *)
(***************************************************************************)
Calls == {1, 2}

NoWorkout == [sport |-> "none"]

NoPlan == [meta |-> [event |-> <<>>], weeks |-> <<>>]

NoResult == [none |-> TRUE]

NoPending == [none |-> TRUE]

EmptyZip == <<>>

CallRecord(kind, pc, w, plan, format, settings) ==
    [kind |-> kind, pc |-> pc, status |-> "pending",
     workout |-> w, plan |-> plan, format |-> format, settings |-> settings,
     pending |-> NoPending, invoked |-> 0, failures |-> 0,
     idx |-> 1, zip |-> EmptyZip, exported |-> 0, skipped |-> 0, errors |-> <<>>,
     result |-> NoResult]

IdleCall == CallRecord("idle", "idle", NoWorkout, NoPlan, "none", Settings(undefined))

\* exportWorkout(workout, format, settings), about to run
ExportWorkoutCall(w, format, settings) ==
    CallRecord("exportWorkout", "start", w, NoPlan, format, settings)

\* exportAllWorkouts(plan, format, settings), about to run
ExportAllWorkoutsCall(plan, format, settings) ==
    CallRecord("exportAllWorkouts", "start", NoWorkout, plan, format, settings)

(***************************************************************************)
(* Inputs of SpecCodec                                                     *)
(***************************************************************************)
MaxRepeats == 3

MaxSetSteps == 3

MaxTotalMinutes == 160

WorkStep == Step("work", 5, "minutes", "percent_ftp", 100, undefined, undefined, undefined)

RecoveryStep == Step("recovery", 5, "minutes", "percent_ftp", 50, undefined, undefined, undefined)

ActiveStep ==
    Step("active", 90, "seconds", "percent_ftp", 76, Some(70), Some(80),
         Some([low |-> Some(85), high |-> Some(95)]))

WarmupStep == Step("warmup", 10, "minutes", "percent_ftp", 66, Some(50), Some(65), undefined)

PlainWarmupStep == Step("warmup", 8, "minutes", "percent_ftp", 60, undefined, undefined, undefined)

CooldownStep == Step("cooldown", 10, "minutes", "percent_ftp", 48, Some(40), Some(60), undefined)

PlainCooldownStep == Step("cooldown", 6, "minutes", "percent_ftp", 44, undefined, undefined, undefined)

\* Steps an interval set is built from.
SetStepPool == {WorkStep, RecoveryStep, ActiveStep}

\* Steps that stand alone in the main set: the pool, a rest step, an hours step,
\* heart-rate and perceived-effort targets, the three distance units, targets
\* with one bound only, and an intensity unit no encoder knows.
MainStepPool ==
    SetStepPool \cup
    { Step("rest", 2, "minutes", "percent_ftp", 40, undefined, undefined, undefined),
      Step("work", 1, "hours", "hr_zone", 2, undefined, undefined, undefined),
      Step("work", 2, "kilometers", "percent_lthr", 90, Some(85), Some(95), undefined),
      Step("work", 400, "meters", "rpe", 7, undefined, undefined,
           Some([low |-> Some(90), high |-> Some(90)])),
      Step("work", 1, "miles", "percent_ftp", 60, undefined, undefined, undefined),
      Step("work", 4, "minutes", "percent_ftp", 90, Some(88), undefined, undefined),
      Step("work", 6, "minutes", "hr_zone", 3, undefined, Some(4), undefined),
      Step("work", 7, "minutes", "pace", 80, Some(75), Some(85), undefined) }

IntervalSets ==
    { IntervalSet(n, steps) : n \in 1..MaxRepeats, steps \in SeqsOf(SetStepPool, 0, MaxSetSteps) }

\* What may stand before and after the main item under study.
AroundMain == { <<>>, <<ActiveStep>>, <<IntervalSet(2, <<WorkStep, RecoveryStep>>)>> }

Mains ==
    { before \o <<item>> \o after :
        before \in AroundMain, item \in MainStepPool \cup IntervalSets, after \in AroundMain }

Warmups == { <<>>, <<WarmupStep>>, <<PlainWarmupStep, ActiveStep>> }

Cooldowns == { <<>>, <<CooldownStep>>, <<ActiveStep, PlainCooldownStep>> }

Structures ==
    { Structure(wu, main, cd) : wu \in Warmups, main \in Mains, cd \in Cooldowns }

CodecName == <<"R", "i", "d", "e">>

CodecDescription == <<"e", "a", "s", "y">>

StructuredWorkouts ==
    { Workout(sport, "intervals", CodecName, CodecDescription, undefined, Some(60), Some(st)) :
        sport \in {"bike", "run", "swim", "rest"}, st \in Structures }

DurationInputs == {undefined} \cup { Some(m) : m \in 0..MaxTotalMinutes }

SimpleWorkouts ==
    { Workout(sport, type, CodecName, CodecDescription, undefined, d, undefined) :
        sport \in Sports, type \in WorkoutTypes, d \in DurationInputs }

SettingsInputs == { Settings(undefined), Settings(Some(250)) }

NoOutput == [encoder |-> "none"]

(***************************************************************************)
(* SpecCodec: the encoders applied to one workout                          *)
(***************************************************************************)
InitCodec ==
    /\ workout \in StructuredWorkouts \cup SimpleWorkouts
    /\ output = NoOutput
    /\ calls = [c \in Calls |-> IdleCall]
    /\ browser = EmptyBrowser

GenerateZwo ==
    /\ output = NoOutput
    /\ \E settings \in SettingsInputs :
         output' = [encoder |-> "zwo", result |-> generateZwo(workout, settings)]
    /\ UNCHANGED <<workout, calls, browser>>

GenerateMrc ==
    /\ output = NoOutput
    /\ \E settings \in SettingsInputs :
         output' = [encoder |-> "mrc", result |-> generateMrc(workout, settings)]
    /\ UNCHANGED <<workout, calls, browser>>

GenerateErg ==
    /\ output = NoOutput
    /\ \E settings \in SettingsInputs :
         output' = [encoder |-> "erg", result |-> generateErg(workout, settings)]
    /\ UNCHANGED <<workout, calls, browser>>

GenerateFit ==
    /\ output = NoOutput
    /\ \E settings \in SettingsInputs, sdk \in SdkBehaviours :
         output' = [encoder |-> "fit", result |-> generateFit(workout, settings, sdk)]
    /\ UNCHANGED <<workout, calls, browser>>

(***************************************************************************)
(* Inputs of Spec                                                          *)
(***************************************************************************)
MaxPlanWorkouts == 3

NameA == <<"A">>

\* sanitizes to the same file name as NameA
NameA2 == <<"A", "?">>

NameBC == <<"B", " ", " ", "C", ":">>

OrchSettings == Settings(Some(250))

SimpleWorkout(sport, name) ==
    Workout(sport, "endurance", name, <<>>, undefined, Some(60), undefined)

IntervalWorkout ==
    Workout("bike", "intervals", NameBC, <<>>, undefined, Some(50),
            Some(Structure(<<WarmupStep>>, <<IntervalSet(3, <<WorkStep, RecoveryStep>>)>>,
                           <<CooldownStep>>)))

SingleWorkouts ==
    { SimpleWorkout(sport, name) : sport \in Sports, name \in {NameA, NameA2, NameBC} }
      \cup {IntervalWorkout}

PlanWorkoutPool ==
    { SimpleWorkout("bike", NameA), SimpleWorkout("bike", NameA2), IntervalWorkout,
      SimpleWorkout("run", NameBC), SimpleWorkout("swim", NameA),
      SimpleWorkout("rest", <<>>), SimpleWorkout("race", NameA) }

PlanEvent == <<"M", "y", " ", "R", "a", "c", "e">>

\* The workouts ws laid out in weeks and days: all in one day, or a week each.
PlanOf(ws, shape) ==
    [meta  |-> [event |-> PlanEvent],
     weeks |-> IF shape = "oneDay"
               THEN << [days |-> << [workouts |-> ws] >>] >>
               ELSE [i \in 1..Len(ws) |-> [days |-> << [workouts |-> <<ws[i]>>] >>]]]

Plans ==
    { PlanOf(ws, shape) :
        ws \in SeqsOf(PlanWorkoutPool, 0, MaxPlanWorkouts), shape \in {"oneDay", "weekEach"} }

StartCalls ==
    { ExportWorkoutCall(w, format, OrchSettings) : w \in SingleWorkouts, format \in ExportFormats }
      \cup
    { ExportAllWorkoutsCall(plan, format, OrchSettings) :
        plan \in Plans, format \in {"zwo", "fit", "mrc"} }

(***************************************************************************)
(* Spec: one export call                                                   *)
(***************************************************************************)
Init ==
    /\ workout = NoWorkout
    /\ output = NoOutput
    /\ \E start \in StartCalls : calls = [c \in Calls |-> IF c = 1 THEN start ELSE IdleCall]
    /\ browser = EmptyBrowser

\* exportWorkout from its entry to its return, for the cases without an await:
\* "zwo", "mrc", the default case, and "fit" when the sport is refused.
ExportWorkoutSync(c) ==
    LET self    == calls[c]
        refusal == exportWorkoutRefusal(self.workout, self.format)
    IN /\ self.kind = "exportWorkout" /\ self.pc = "start"
       /\ ~(self.format = "fit" /\ refusal = undefined)
       /\ IF refusal # undefined
          THEN /\ calls' = [calls EXCEPT ![c] = [self EXCEPT !.pc = "done",
                                                             !.status = "resolved",
                                                             !.result = refusal[1]]]
               /\ UNCHANGED browser
          ELSE \E fault \in DownloadFaults :
                 LET d == exportWorkoutDeliver(
                            browser, c, self.workout, self.format,
                            Encode(self.workout, self.format, self.settings, "ok"), fault)
                 IN /\ calls' = [calls EXCEPT ![c] = [self EXCEPT !.pc = "done",
                                                                  !.invoked = @ + 1,
                                                                  !.status = d.settled.status,
                                                                  !.result = d.settled.result]]
                    /\ browser' = d.browser
       /\ UNCHANGED <<workout, output>>

\* exportWorkout, case "fit", from its entry to `await generateFit(...)`
ExportWorkoutCallFit(c) ==
    LET self == calls[c]
    IN /\ self.kind = "exportWorkout" /\ self.pc = "start"
       /\ self.format = "fit"
       /\ exportWorkoutRefusal(self.workout, self.format) = undefined
       /\ \E sdk \in SdkBehaviours :
            calls' = [calls EXCEPT ![c] =
                        [self EXCEPT !.pc = "awaitFit", !.invoked = @ + 1,
                                     !.pending = generateFit(self.workout, self.settings, sdk)]]
       /\ UNCHANGED <<workout, output, browser>>

\* exportWorkout, case "fit", from the settled generateFit to its return
ExportWorkoutResumeFit(c) ==
    LET self == calls[c]
    IN /\ self.kind = "exportWorkout" /\ self.pc = "awaitFit"
       /\ \E fault \in DownloadFaults :
            LET d == exportWorkoutDeliver(browser, c, self.workout, self.format,
                                          self.pending, fault)
            IN /\ calls' = [calls EXCEPT ![c] = [self EXCEPT !.pc = "done",
                                                             !.pending = NoPending,
                                                             !.status = d.settled.status,
                                                             !.result = d.settled.result]]
               /\ browser' = d.browser
       /\ UNCHANGED <<workout, output>>

\* getAvailableFormats(workout.sport), as the export menu of the workout asks
\* for it; the list is kept in output.
GetAvailableFormats(c) ==
    LET self == calls[c]
    IN /\ self.kind = "exportWorkout"
       /\ output = NoOutput
       /\ output' = [encoder |-> "formats", result |-> getAvailableFormats(self.workout.sport)]
       /\ UNCHANGED <<workout, calls, browser>>

\* exportAllWorkouts from its entry to its first await (or to its return)
BatchStart(c) ==
    LET self == calls[c]
    IN /\ self.kind = "exportAllWorkouts" /\ self.pc = "start"
       /\ \E sdk \in SdkBehaviours :
            calls' = [calls EXCEPT ![c] = batchRun(self, sdk)]
       /\ UNCHANGED <<workout, output, browser>>

\* exportAllWorkouts from the settled generateWorkoutContent to the next await
BatchResume(c) ==
    LET self == calls[c]
    IN /\ self.kind = "exportAllWorkouts" /\ self.pc = "awaitContent"
       /\ \E sdk \in SdkBehaviours :
            calls' = [calls EXCEPT ![c] =
                        batchRun([batchRecord(self, self.pending) EXCEPT !.pending = NoPending],
                                 sdk)]
       /\ UNCHANGED <<workout, output, browser>>

\* exportAllWorkouts from the generated archive to its return
BatchDownload(c) ==
    LET self == calls[c]
    IN /\ self.kind = "exportAllWorkouts" /\ self.pc = "awaitZip"
       /\ \E fault \in DownloadFaults :
            LET d == batchDeliver(browser, c, self, fault)
            IN /\ calls' = [calls EXCEPT ![c] = d.call]
               /\ browser' = d.browser
       /\ UNCHANGED <<workout, output>>

Next ==
    \E c \in Calls :
        \/ GetAvailableFormats(c)
        \/ ExportWorkoutSync(c)
        \/ ExportWorkoutCallFit(c)
        \/ ExportWorkoutResumeFit(c)
        \/ BatchStart(c)
        \/ BatchResume(c)
        \/ BatchDownload(c)

Spec == Init /\ [][Next]_vars

NextCodec == GenerateZwo \/ GenerateMrc \/ GenerateErg \/ GenerateFit

SpecCodec == InitCodec /\ [][NextCodec]_vars

(***************************************************************************)
(* Inputs of SpecText                                                      *)
(***************************************************************************)
MaxTextLength == 4

\* Backslash, semicolon, comma, newline, the letter n and an ordinary letter.
IcsAlphabet == {"\\", ";", ",", "\n", "n", "a"}

XmlAlphabet == {"&", "<", ">", "\"", "'", "a"}

FilenameAlphabet == {"<", "?", " ", "\t", "a", "_"}

ShortTexts ==
    SeqsOf(IcsAlphabet, 0, MaxTextLength)
      \cup SeqsOf(XmlAlphabet, 0, MaxTextLength)
      \cup SeqsOf(FilenameAlphabet, 0, MaxTextLength)

Pad(n) == [i \in 1..n |-> "a"]

\* Texts around the length cap of a file name.
LongNames ==
    { Pad(k) \o t \o Pad(m) :
        k \in (MaxFilenameLength - 4)..(MaxFilenameLength + 1),
        t \in SeqsOf({"<", " ", "b"}, 0, 2),
        m \in {0, 3} }

\* What a line is folded around: an escaped character, an emoji (a surrogate
\* pair), a two-octet and a three-octet character, or nothing special.
FoldMiddles ==
    { <<",">>, <<"\\">>, <<"\n">>, <<"D83C", "DFC6">>, <<"00E9">>, <<"20AC">>, <<"b">> }

\* Texts that put the middle at and around the first two fold points of a
\* SUMMARY line, and texts that need no fold.
LongLines ==
    { Pad(k) \o mid \o Pad(m) :
        k \in (0..2) \cup (62..70) \cup (138..143), mid \in FoldMiddles, m \in {0, 3} }

TextDescriptions == { <<>>, <<"a", "&", "b">>, <<"<", "'", ">">> }

TextHumanReadables == { undefined, Some(<<"1", "\\", "n", "2", "\"", "&">>) }

TextWorkouts ==
    { Workout("bike", "endurance", name, <<>>, undefined, Some(60), undefined) :
        name \in ShortTexts \cup LongNames \cup LongLines }
      \cup
    { Workout("bike", "endurance", name, description, humanReadable, Some(60), undefined) :
        name \in SeqsOf(XmlAlphabet, 0, 2),
        description \in TextDescriptions, humanReadable \in TextHumanReadables }

(***************************************************************************)
(* SpecText: the text functions applied to the texts of one workout        *)
(***************************************************************************)
InitText ==
    /\ workout \in TextWorkouts
    /\ output = NoOutput
    /\ calls = [c \in Calls |-> IdleCall]
    /\ browser = EmptyBrowser

\* escapeIcsText(workout.name)
EscapeIcsText ==
    /\ output = NoOutput
    /\ output' = [encoder |-> "escapeIcsText", result |-> escapeIcsText(workout.name)]
    /\ UNCHANGED <<workout, calls, browser>>

\* foldLine(`SUMMARY:${escapeIcsText(workout.name)}`)
FoldLine ==
    /\ output = NoOutput
    /\ LET line == Chars("SUMMARY:") \o escapeIcsText(workout.name)
       IN output' = [encoder |-> "foldLine", line |-> line, result |-> foldLine(line)]
    /\ UNCHANGED <<workout, calls, browser>>

\* sanitizeFilename(workout.name)
SanitizeFilename ==
    /\ output = NoOutput
    /\ output' = [encoder |-> "sanitizeFilename", result |-> sanitizeFilename(workout.name)]
    /\ UNCHANGED <<workout, calls, browser>>

NextText == EscapeIcsText \/ FoldLine \/ SanitizeFilename \/ GenerateZwo

SpecText == InitText /\ [][NextText]_vars

(***************************************************************************)
(* Inputs of SpecIcs                                                       *)
(***************************************************************************)
MaxIcsWorkouts == 2

\* A workout with the two fields only the calendar export reads.
IcsWorkout(id, sport, type, name, description, humanReadable, minutes, zone) ==
    [id |-> Chars(id), primaryZone |-> zone]
      @@ Workout(sport, type, name, description, humanReadable, minutes, undefined)

IcsWorkoutPool ==
    { IcsWorkout("w-run", "run", "endurance", Chars("Easy Run"), Chars("Zone 2 easy run"),
                 undefined, Some(45), Some(Chars("Zone 2"))),
      IcsWorkout("w-off", "rest", "rest", <<>>, <<>>, undefined, undefined, undefined),
      IcsWorkout("w-rest", "rest", "rest", Chars("Rest Day"), <<>>, undefined, Some(0), undefined),
      IcsWorkout("w-int", "run", "intervals", Chars("Intervals; Hard, Fast"),
                 Chars("Run hard") \o <<"\n">> \o Chars("Then recover"),
                 Some(Chars("4x") \o <<"\\", "n">> \o Chars("easy")), Some(90), undefined),
      IcsWorkout("w-long", "bike", "long", Pad(70) \o <<"00E9", ",">>,
                 Pad(150) \o <<"20AC">>, undefined, Some(120), Some(<<>>)) }

\* meta.event and meta.eventDate: a missing name, a missing and an empty date,
\* a name with characters to escape and a name longer than a line.
IcsMetas ==
    { [event |-> undefined, eventDate |-> Some(Chars("2025-06-15"))],
      [event |-> Some(Chars("Test Marathon")), eventDate |-> undefined],
      [event |-> Some(Chars("Test Marathon")), eventDate |-> Some(<<>>)],
      [event |-> Some(Chars("Test Marathon")), eventDate |-> Some(Chars("2025-06-15"))],
      [event |-> Some(Chars("Triathlon; Sprint, Olympic")), eventDate |-> Some(Chars("2025-06-15"))],
      [event |-> Some(Pad(80)), eventDate |-> Some(Chars("2025-06-15"))] }

DayDate(i) == Chars("2025-01-1") \o Chars(ToString(i))

\* The workouts ws laid out in one week: all in one day, or a day each.
IcsPlanOf(meta, ws, shape) ==
    [meta  |-> meta,
     weeks |-> << [days |-> IF shape = "oneDay"
                            THEN << [date |-> DayDate(0), workouts |-> ws] >>
                            ELSE [i \in 1..Len(ws) |->
                                    [date |-> DayDate(i), workouts |-> <<ws[i]>>]]] >>]

IcsPlans ==
    { IcsPlanOf(meta, ws, shape) :
        meta \in IcsMetas,
        ws \in SeqsOf(IcsWorkoutPool, 0, MaxIcsWorkouts), shape \in {"oneDay", "dayEach"} }

\* The clock, as new Date().toISOString() prints it up to the seconds.
NowInputs == { Chars("20250101T120000") }

\* exportPlanToCalendar(plan), about to run
CalendarCall(plan) ==
    CallRecord("exportPlanToCalendar", "start", NoWorkout, plan, "ics", Settings(undefined))

(***************************************************************************)
(* SpecIcs: the calendar export of one plan                                *)
(***************************************************************************)
InitIcs ==
    /\ workout = NoWorkout
    /\ output = NoOutput
    /\ \E plan \in IcsPlans :
         calls = [c \in Calls |-> IF c = 1 THEN CalendarCall(plan) ELSE IdleCall]
    /\ browser = EmptyBrowser

\* generateIcs(plan), called on its own
GenerateIcs(c) ==
    /\ calls[c].kind = "exportPlanToCalendar" /\ calls[c].pc = "start"
    /\ output = NoOutput
    /\ \E now \in NowInputs :
         output' = [encoder |-> "ics", result |-> generateIcs(calls[c].plan, now)]
    /\ UNCHANGED <<workout, calls, browser>>

\* exportPlanToCalendar from its entry to its return (it has no await)
ExportPlanToCalendar(c) ==
    LET self == calls[c]
    IN /\ self.kind = "exportPlanToCalendar" /\ self.pc = "start"
       /\ \E now \in NowInputs :
            LET icsContent == generateIcs(self.plan, now)
            IN \E fault \in DownloadFaults :
                 LET d == exportPlanToCalendar(browser, c, self.plan, icsContent, fault)
                 IN /\ calls' = [calls EXCEPT ![c] = [self EXCEPT !.pc = "done",
                                                                  !.status = "resolved",
                                                                  !.result = d.result]]
                    /\ browser' = d.browser
       /\ UNCHANGED <<workout, output>>

NextIcs == \E c \in Calls : GenerateIcs(c) \/ ExportPlanToCalendar(c)

SpecIcs == InitIcs /\ [][NextIcs]_vars

(***************************************************************************)
(* Inputs of SpecConcurrent                                                *)
(***************************************************************************)
MaxConcurrentWorkouts == 1

\* both names sanitize to the same file name
ConcurrentWorkoutPool == { SimpleWorkout("bike", NameA), SimpleWorkout("run", NameA2) }

SecondSettings == Settings(Some(200))

FirstCalls ==
    { ExportAllWorkoutsCall(PlanOf(ws, "oneDay"), format, OrchSettings) :
        ws \in SeqsOf(ConcurrentWorkoutPool, 0, MaxConcurrentWorkouts),
        format \in {"zwo", "fit"} }
      \cup
    { ExportWorkoutCall(SimpleWorkout("bike", NameA), format, OrchSettings) :
        format \in {"zwo", "fit", "mrc"} }

SecondCalls ==
    { ExportWorkoutCall(SimpleWorkout("run", NameA2), "fit", SecondSettings),
      ExportAllWorkoutsCall(PlanOf(<<SimpleWorkout("run", NameA2), SimpleWorkout("bike", NameA)>>,
                                   "weekEach"),
                            "fit", SecondSettings),
      ExportAllWorkoutsCall(PlanOf(<<IntervalWorkout>>, "oneDay"), "zwo", SecondSettings) }

(***************************************************************************)
(* SpecConcurrent: two export calls in flight on one page, their steps     *)
(* interleaved at the awaits                                               *)
(***************************************************************************)
InitConcurrent ==
    /\ workout = NoWorkout
    /\ output = NoOutput
    /\ \E first \in FirstCalls, second \in SecondCalls :
         calls = [c \in Calls |-> IF c = 1 THEN first ELSE second]
    /\ browser = EmptyBrowser

NextConcurrent ==
    \E c \in Calls :
        \/ ExportWorkoutSync(c)
        \/ ExportWorkoutCallFit(c)
        \/ ExportWorkoutResumeFit(c)
        \/ BatchStart(c)
        \/ BatchResume(c)
        \/ BatchDownload(c)

SpecConcurrent == InitConcurrent /\ [][NextConcurrent]_vars

(***************************************************************************)
(* Properties                                                              *)
(***************************************************************************)
Range(seq) == { seq[i] : i \in 1..Len(seq) }

\* The sports each per-workout encoder accepts, as the documentation lists them.
AcceptedSports(encoder) ==
    CASE encoder = "zwo" -> {"bike", "run"}
      [] encoder = "mrc" -> {"bike"}
      [] encoder = "erg" -> {"bike"}
      [] encoder = "fit" -> Sports \ {"rest", "race"}

\* The message of the error an encoder raises for a sport it does not accept.
UnsupportedSportMessage(encoder, sport) ==
    CASE encoder = "zwo" -> "ZWO export not supported for " \o sport \o " workouts"
      [] encoder = "mrc" -> "ERG/MRC export only supports bike workouts"
      [] encoder = "erg" -> "ERG/MRC export only supports bike workouts"
      [] encoder = "fit" -> "FIT export not supported for " \o sport \o " workouts"

Encoders == {"zwo", "mrc", "erg", "fit"}

\* C1: every per-workout encoder (generateZwo, generateMrc, generateErg,
\* generateFit) called for a sport it does not support raises its named,
\* non-empty error and returns no artifact at all; called for a sport it
\* supports it does not raise that error.
C1_UnsupportedSportRaises ==
    output.encoder \in Encoders =>
        LET r       == output.result
            message == UnsupportedSportMessage(output.encoder, workout.sport)
        IN /\ message # ""
           /\ workout.sport \notin AcceptedSports(output.encoder) =>
                /\ r.threw /\ r.isError
                /\ r.error = message
                /\ r.content = NoContent
           /\ workout.sport \in AcceptedSports(output.encoder) =>
                /\ ~(r.threw /\ r.error = message)
                /\ ~r.threw => r.content.format = output.encoder

C1_Witness ==
    /\ output.encoder = "zwo"
    /\ workout.sport = "swim"
    /\ workout.structure # undefined
    /\ output.result.threw
    /\ output.result.error = "ZWO export not supported for swim workouts"

ExpectedExtension(format) ==
    CASE format = "zwo" -> <<".", "z", "w", "o">>
      [] format = "fit" -> <<".", "f", "i", "t">>
      [] format = "mrc" -> <<".", "m", "r", "c">>
      [] OTHER          -> <<>>

IsBatch(c) == calls[c].kind = "exportAllWorkouts"

\* The call returned its counts (it was not rejected by a failing download).
BatchReturned(c) == IsBatch(c) /\ calls[c].pc = "done" /\ calls[c].status = "resolved"

\* C3: in exportAllWorkouts a workout whose encoder throws is recorded in the
\* returned errors list and is not counted as exported, and the batch goes on:
\* after the call errors.length is the number of workouts whose encoding failed.
C3_ErrorsRecordFailures ==
    \A c \in Calls :
        BatchReturned(c) =>
            /\ Len(calls[c].result.errors) = calls[c].failures
            /\ calls[c].result.exported = calls[c].invoked - calls[c].failures

\* Downloads of an archive made by call c.
ArchiveClicks(c) ==
    { i \in 1..Len(browser.log) :
        /\ browser.log[i].op = "click"
        /\ browser.log[i].file.owner = c
        /\ browser.log[i].file.mimeType = "application/zip" }

\* DOM operations of any download made by call c.
DownloadEvents(c) == { i \in 1..Len(browser.log) : browser.log[i].file.owner = c }

\* C4: exportAllWorkouts generates and downloads the archive if and only if at
\* least one artifact was produced: a call that returned with exported > 0
\* downloaded the archive exactly once, a call that returned with exported = 0
\* generated and downloaded nothing, and no call ever downloads twice or
\* starts generating the archive with nothing exported.
C4_ArchiveIffExported ==
    \A c \in Calls :
        IsBatch(c) =>
            /\ Cardinality(ArchiveClicks(c)) <= 1
            /\ calls[c].pc = "awaitZip" => calls[c].exported > 0
            /\ DownloadEvents(c) # {} => calls[c].exported > 0 /\ calls[c].pc = "done"
            /\ BatchReturned(c) =>
                 /\ calls[c].result.exported > 0 => Cardinality(ArchiveClicks(c)) = 1
                 /\ calls[c].result.exported = 0 => DownloadEvents(c) = {}

\* Two workouts were encoded and the archive was downloaded once.
C4_Witness ==
    \E c \in Calls :
        /\ BatchReturned(c)
        /\ calls[c].result.exported >= 2
        /\ Cardinality(ArchiveClicks(c)) = 1

\* C5: the archive holds one file per successfully encoded workout, also when
\* two workouts have names that sanitize to the same string: after
\* exportAllWorkouts the number of files in the archive is the exported count.
C5_OneFilePerExportedWorkout ==
    \A c \in Calls :
        BatchReturned(c) => Cardinality(DOMAIN calls[c].zip) = calls[c].result.exported

\* The list the documentation and the tests give for each sport.
ExpectedFormats(sport) ==
    CASE sport = "bike"                          -> <<"zwo", "fit", "mrc">>
      [] sport = "run"                           -> <<"zwo", "fit">>
      [] sport \in {"swim", "strength", "brick"} -> <<"fit">>
      [] sport \in {"rest", "race"}              -> <<>>

\* The result is the failure exportWorkout returns for a sport the format
\* does not support.
IsUnsupportedSportFailure(r, sport) ==
    /\ ~r.success
    /\ r.error \in { Some("Zwift export only supports bike and run workouts"),
                     Some("FIT export not supported for " \o sport \o " workouts"),
                     Some("MRC export only supports bike workouts") }

\* C6: getAvailableFormats(sport) is the list of per-workout formats for the
\* sport in the order zwo, fit, mrc (bike: zwo, fit, mrc; run: zwo, fit; swim,
\* strength, brick: fit; rest, race: none), never contains ics, and a
\* per-workout format is in the list exactly when exportWorkout of a workout of
\* that sport in that format does not return the unsupported-sport failure.
C6_AvailableFormats ==
    \A c \in Calls :
        (calls[c].kind = "exportWorkout" /\ output.encoder = "formats") =>
            LET sport   == calls[c].workout.sport
                formats == output.result
            IN /\ formats = ExpectedFormats(sport)
               /\ "ics" \notin Range(formats)
               /\ (calls[c].pc = "done" /\ calls[c].format \in {"zwo", "fit", "mrc"}) =>
                    (calls[c].format \in Range(formats)
                       <=> ~IsUnsupportedSportFailure(calls[c].result, sport))

\* A running workout: mrc is not offered, and exporting it as mrc is refused.
C6_Witness ==
    \E c \in Calls :
        /\ calls[c].kind = "exportWorkout" /\ calls[c].pc = "done"
        /\ calls[c].workout.sport = "run" /\ calls[c].format = "mrc"
        /\ output.encoder = "formats" /\ output.result = <<"zwo", "fit">>
        /\ calls[c].result = Failure("MRC export only supports bike workouts")

\* An encoder returned a file for a workout with a structured body.
EncodedStructured(encoders) ==
    /\ output.encoder \in encoders
    /\ ~output.result.threw
    /\ workout.structure # undefined

\* An encoder returned a file for a workout without a structured body.
EncodedSimple(encoders) ==
    /\ output.encoder \in encoders
    /\ ~output.result.threw
    /\ workout.structure = undefined

\* Interval expansion of one main item: a step stands for itself, a set of k
\* steps repeated n times is n blocks of the k steps in their listed order.
ExpandItem(item) ==
    IF IsIntervalSet(item)
    THEN LET k == Len(item.steps)
         IN [j \in 1..(item.repeats * k) |-> item.steps[((j - 1) % k) + 1]]
    ELSE <<item>>

\* The steps of a structure after interval expansion, in workout order.
ExpandedSteps(structure) ==
    structure.warmup
      \o Flatten([i \in 1..Len(structure.main) |-> ExpandItem(structure.main[i])])
      \o structure.cooldown

\* Every step of the structure has a duration in seconds, minutes or hours.
TimeUnitsOnly(structure) ==
    /\ \A step \in Range(structure.warmup \o structure.cooldown) : step.duration.unit \in TimeUnits
    /\ \A item \in Range(structure.main) :
         IF IsIntervalSet(item)
         THEN \A step \in Range(item.steps) : step.duration.unit \in TimeUnits
         ELSE item.duration.unit \in TimeUnits

\* The duration of a time-unit step in seconds.
StepSeconds(step) ==
    CASE step.duration.unit = "seconds" -> step.duration.value
      [] step.duration.unit = "minutes" -> step.duration.value * 60
      [] step.duration.unit = "hours"   -> step.duration.value * 60 * 60

\* Sum of the per-step durations after interval expansion, in seconds.
ExpandedSeconds(structure) ==
    LET steps == ExpandedSteps(structure)
    IN SumSeq([j \in 1..Len(steps) |-> StepSeconds(steps[j])])

TicksPerSecond == TicksPerMinute \div 60

\* C7: for a structured workout whose durations use seconds, minutes or hours,
\* the minutes value of the last data point built by the MRC/ERG encoder is
\* the sum of the per-step durations after interval expansion, and the last
\* data line of the file prints that sum (with two decimals).
C7_ErgDurationConserved ==
    (EncodedStructured({"mrc", "erg"}) /\ TimeUnitsOnly(workout.structure[1])) =>
        LET points == generateDataPoints(workout.structure[1])
            data   == output.result.content.data
            total  == ExpandedSeconds(workout.structure[1]) * TicksPerSecond
        IN /\ Len(data) = Len(points)
           /\ points = <<>> => total = 0
           /\ points # <<>> =>
                /\ Last(points)[1] = total
                /\ Last(data)[1] = toFixed2Minutes(total)

\* An hours step, a seconds step and a repeated set of minutes steps together.
C7_Witness ==
    /\ EncodedStructured({"mrc"})
    /\ TimeUnitsOnly(workout.structure[1])
    /\ Len(workout.structure[1].main) = 3
    /\ workout.structure[1].main[1] = ActiveStep
    /\ ~IsIntervalSet(workout.structure[1].main[2])
    /\ workout.structure[1].main[2].duration.unit = "hours"
    /\ IsIntervalSet(workout.structure[1].main[3])
    /\ workout.structure[1].warmup = <<>>
    /\ workout.structure[1].cooldown = <<>>
    /\ Last(output.result.content.data)[1] = (1 + 60 + 20) * 100 + 50

\* Total time encoded in a list of ZWO elements, in seconds.
ZwoTotalSeconds(elements) ==
    SumSeq([i \in 1..Len(elements) |->
              IF elements[i].tag = "IntervalsT"
              THEN elements[i].Repeat * (elements[i].OnDuration + elements[i].OffDuration)
              ELSE elements[i].Duration])

\* C8: for a structured bike or run workout with time-unit durations the total
\* time encoded in the ZWO workout element (sum of the Duration attributes, an
\* IntervalsT counting as Repeat x (OnDuration + OffDuration)) is the sum of
\* the per-step durations after interval expansion, for every interval-set
\* shape.
C8_ZwoDurationConserved ==
    (EncodedStructured({"zwo"}) /\ TimeUnitsOnly(workout.structure[1])) =>
        ZwoTotalSeconds(ZwoElements(output.result.content))
            = ExpandedSeconds(workout.structure[1])

\* Percent at the start and at the end of a step in the MRC/ERG data.
StepStartPercent(step) ==
    IF step.intensity.valueLow # undefined /\ step.intensity.valueHigh # undefined
    THEN step.intensity.valueLow[1] ELSE step.intensity.value

StepEndPercent(step) ==
    IF step.intensity.valueLow # undefined /\ step.intensity.valueHigh # undefined
    THEN step.intensity.valueHigh[1] ELSE step.intensity.value

\* The workout of the example: 10 + 3 x (5 + 5) + 10 minutes.
ExampleStructure ==
    Structure(<<WarmupStep>>, <<IntervalSet(3, <<WorkStep, RecoveryStep>>)>>, <<CooldownStep>>)

\* C9: the sequence the MRC/ERG encoder flattens a structure into is the
\* interval expansion in block order: two data points per expanded step, the
\* j-th pair spanning the duration of the j-th expanded step at its intensity
\* and starting where the previous pair ended, so a set of k steps repeated n
\* times gives n x k steps after the warm-up and earlier main items and before
\* later main items and the cool-down; the example workout (1 warm-up step,
\* 3 x 2 steps, 1 cool-down step) gives 8 steps ending at minute 50.
C9_ErgIntervalExpansion ==
    EncodedStructured({"mrc", "erg"}) =>
        LET points   == generateDataPoints(workout.structure[1])
            data     == output.result.content.data
            expanded == ExpandedSteps(workout.structure[1])
        IN /\ Len(points) = 2 * Len(expanded)
           /\ Len(data) = Len(points)
           /\ \A j \in 1..Len(expanded) :
                /\ points[2 * j - 1][1] = (IF j = 1 THEN 0 ELSE points[2 * j - 2][1])
                /\ points[2 * j][1] - points[2 * j - 1][1] = getDurationMinutes(expanded[j])
                /\ points[2 * j - 1][2] = StepStartPercent(expanded[j])
                /\ points[2 * j][2] = StepEndPercent(expanded[j])
                /\ data[2 * j - 1][1] = toFixed2Minutes(points[2 * j - 1][1])
                /\ data[2 * j][1] = toFixed2Minutes(points[2 * j][1])
                /\ output.encoder = "mrc" =>
                     /\ data[2 * j - 1][2] = StepStartPercent(expanded[j])
                     /\ data[2 * j][2] = StepEndPercent(expanded[j])
           /\ workout.structure[1] = ExampleStructure =>
                /\ Len(data) = 2 * 8
                /\ Last(data)[1] = 50 * 100
                /\ [j \in 1..8 |-> data[2 * j][1]]
                     = <<1000, 1500, 2000, 2500, 3000, 3500, 4000, 5000>>
                /\ output.encoder = "mrc" =>
                     [j \in 2..7 |-> data[2 * j][2]] = [j \in 2..7 |-> IF j % 2 = 0 THEN 100 ELSE 50]

C9_Witness ==
    /\ EncodedStructured({"mrc"})
    /\ workout.structure[1] = ExampleStructure
    /\ Len(output.result.content.data) = 16
    /\ Last(output.result.content.data)[1] = 5000

\* Minutes a workout without a structured body counts for.
FallbackTotal(w) ==
    IF w.durationMinutes = undefined THEN 60
    ELSE IF w.durationMinutes[1] = 0 THEN 60 ELSE w.durationMinutes[1]

Clamp(x, lo, hi) == IF x < lo THEN lo ELSE IF x > hi THEN hi ELSE x

\* round(10% of total): the whole number r with r - 1/2 <= total / 10 < r + 1/2.
RoundedTenth(total) == CHOOSE r \in 0..total : 10 * r - 5 <= total /\ total < 10 * r + 5

\* The three phase durations in minutes: warm-up, main, cool-down.
FallbackPhases(w) ==
    LET total    == FallbackTotal(w)
        warmup   == Clamp(RoundedTenth(total), 5, 15)
        cooldown == Clamp(RoundedTenth(total), 5, 10)
    IN <<warmup, total - warmup - cooldown, cooldown>>

\* Phase durations, in minutes, read back from what each encoder builds.
ZwoPhaseMinutes(elements) == [i \in 1..Len(elements) |-> elements[i].Duration \div 60]

FitPhaseMinutes(steps) == [i \in 1..Len(steps) |-> steps[i].durationValue \div (60 * 1000)]

ErgPhaseMinutes(points) ==
    [j \in 1..(Len(points) \div 2) |-> (points[2 * j][1] - points[2 * j - 1][1]) \div TicksPerMinute]

\* C10: for a workout without a structured body, whatever its type and total
\* duration (missing or zero counting as 60 minutes), each of ZWO, MRC/ERG and
\* FIT emits exactly three phases, warm-up = clamp(round(total / 10), 5, 15)
\* minutes, cool-down = clamp(round(total / 10), 5, 10) minutes and main =
\* total - warm-up - cool-down, so the encoders agree on each phase duration
\* and the phases sum to the total.
C10_FallbackEquivalence ==
    workout.structure = undefined =>
        LET phases == FallbackPhases(workout)
            c      == output.result.content
        IN /\ phases[1] + phases[2] + phases[3] = FallbackTotal(workout)
           /\ ZwoPhaseMinutes(Flatten(generateSimpleWorkout(workout))) = phases
           /\ FitPhaseMinutes(generateSimpleSteps(workout).steps) = phases
           /\ ErgPhaseMinutes(generateSimpleDataPoints(workout)) = phases
           /\ EncodedSimple({"zwo"}) =>
                /\ Len(ZwoElements(c)) = 3
                /\ [i \in 1..3 |-> ZwoElements(c)[i].tag] = <<"Warmup", "SteadyState", "Cooldown">>
                /\ [i \in 1..3 |-> ZwoElements(c)[i].Duration] = [i \in 1..3 |-> phases[i] * 60]
           /\ EncodedSimple({"fit"}) =>
                /\ Len(c.steps) = 3
                /\ c.workout.numValidSteps = 3
                /\ [i \in 1..3 |-> c.steps[i].workoutStepName] = <<"Warm Up", "Main Set", "Cool Down">>
                /\ \A i \in 1..3 : c.steps[i].durationType = "time"
                /\ [i \in 1..3 |-> c.steps[i].durationValue]
                     = [i \in 1..3 |-> phases[i] * 60 * 1000]
           /\ EncodedSimple({"mrc", "erg"}) =>
                /\ Len(c.data) = 2 * 3
                /\ c.data[1][1] = 0
                /\ \A j \in 1..3 : c.data[2 * j][1] - c.data[2 * j - 1][1] = phases[j] * 100
                /\ \A j \in 1..2 : c.data[2 * j + 1][1] = c.data[2 * j][1]
                /\ c.data[6][1] = FallbackTotal(workout) * 100

\* A 150-minute workout: the warm-up is clamped at 15 and the cool-down at 10.
C10_Witness ==
    /\ EncodedSimple({"fit"})
    /\ workout.durationMinutes = Some(150)
    /\ [i \in 1..3 |-> output.result.content.steps[i].durationValue]
         = <<15 * 60000, 125 * 60000, 10 * 60000>>

\* The main-phase intensity written for the workout of the state, and the
\* table entry of a type, in hundredths of FTP (ZWO two-decimal fraction, MRC
\* percent).
EmittedMainIntensity ==
    IF output.encoder = "zwo" THEN ZwoElements(output.result.content)[2].Power
    ELSE output.result.content.data[3][2]

TableIntensity(encoder, type) ==
    IF encoder = "zwo" THEN toFixed2Power(zwoMainPower(type)) ELSE ergMainPercent(type)

\* The main intensity written for a workout whose type is in the order stands,
\* against every other type of the order, on the side the order gives it.
MainIntensityFollows(order) ==
    (EncodedSimple({"zwo", "mrc"}) /\ workout.type \in Range(order)) =>
        \A i, j \in 1..Len(order) :
            workout.type = order[i] =>
                /\ EmittedMainIntensity = TableIntensity(output.encoder, order[i])
                /\ i < j => EmittedMainIntensity < TableIntensity(output.encoder, order[j])
                /\ i > j => EmittedMainIntensity > TableIntensity(output.encoder, order[j])

\* C11 (as stated): the main-phase intensity table is strictly increasing in
\* the order recovery < endurance < tempo < threshold < intervals < vo2max, in
\* the ZWO table and in the MRC/ERG table.
C11_TableIncreasingAsStated ==
    MainIntensityFollows(<<"recovery", "endurance", "tempo", "threshold", "intervals", "vo2max">>)

\* C11 (amended): the main-phase intensity table is strictly increasing in the
\* order recovery < endurance < tempo < intervals < threshold < vo2max, in the
\* ZWO table and in the MRC/ERG table.
C11_TableIncreasing ==
    MainIntensityFollows(<<"recovery", "endurance", "tempo", "intervals", "threshold", "vo2max">>)

\* An intervals workout written as MRC: 85 percent, under threshold's 95.
C11_Witness ==
    /\ EncodedSimple({"mrc"})
    /\ workout.type = "intervals"
    /\ output.result.content.data[3][2] = 85
    /\ ergMainPercent("threshold") = 95

\* What a compliant consumer reads from an escaped iCalendar text: a backslash
\* and the character after it stand for that character, or for a newline
\* when it is n or N.
RECURSIVE IcsUnescape(_)
IcsUnescape(text) ==
    IF text = <<>> THEN <<>>
    ELSE IF text[1] = "\\" /\ Len(text) >= 2
         THEN <<IF text[2] \in {"n", "N"} THEN "\n" ELSE text[2]>>
                \o IcsUnescape(SubSeq(text, 3, Len(text)))
         ELSE <<text[1]>> \o IcsUnescape(Tail(text))

\* The escaped form of one character.
IcsEscapedChar(ch) ==
    IF ch \in {"\\", ";", ","} THEN <<"\\", ch>>
    ELSE IF ch = "\n" THEN <<"\\", "n">>
    ELSE <<ch>>

RECURSIVE SplitCrlf(_, _)
SplitCrlf(text, from) ==
    LET hits == { i \in from..(Len(text) - 1) : text[i] = "\r" /\ text[i + 1] = "\n" }
    IN IF hits = {} THEN <<SubSeq(text, from, Len(text))>>
       ELSE LET first == CHOOSE i \in hits : \A j \in hits : i <= j
            IN <<SubSeq(text, from, first - 1)>> \o SplitCrlf(text, first + 2)

PhysicalLines(text) == SplitCrlf(text, 1)

HighSurrogates == {"D83C", "D83D"}

LowSurrogates == {"DFCA", "DEB4", "DFC3", "DCAA", "DD25", "DFC6", "DECC"}

\* The offsets of a content line after which its folded form breaks it.
FoldOffsets(folded) ==
    LET pieces == PhysicalLines(folded)
    IN { SumSeq([i \in 1..k |-> IF i = 1 THEN Len(pieces[i]) ELSE Len(pieces[i]) - 1]) :
           k \in 1..(Len(pieces) - 1) }

\* The positions of a line that hold a character escaped by the backslash
\* before it (the line is read from the left, pair by pair).
RECURSIVE EscapedPositions(_, _)
EscapedPositions(line, from) ==
    IF from >= Len(line) THEN {}
    ELSE IF line[from] = "\\" THEN {from + 1} \cup EscapedPositions(line, from + 2)
    ELSE EscapedPositions(line, from + 1)

\* C14: folding a content line never breaks it between the two halves of a
\* surrogate pair (inside a multi-byte character) nor between a backslash and
\* the character it escapes, whatever the length of the line and the position
\* of the sequence.
C14_FoldKeepsSequencesWhole ==
    output.encoder = "foldLine" =>
        \A p \in FoldOffsets(output.result) :
            /\ ~(output.line[p] \in HighSurrogates /\ output.line[p + 1] \in LowSurrogates)
            /\ (p + 1) \notin EscapedPositions(output.line, 1)

\* The octets UTF-8 takes for the code unit at position i of a text: one for
\* ASCII, two or three for another unit of the basic plane, four for a
\* surrogate pair (two for each half), three for a surrogate left alone.
UnitOctets(text, i) ==
    LET u == text[i]
    IN IF Len(u) = 1 THEN 1
       ELSE IF u \in HighSurrogates
            THEN IF i < Len(text) /\ text[i + 1] \in LowSurrogates THEN 2 ELSE 3
       ELSE IF u \in LowSurrogates
            THEN IF i > 1 /\ text[i - 1] \in HighSurrogates THEN 2 ELSE 3
       ELSE IF u = "00E9" THEN 2
       ELSE 3

Octets(text) == SumSeq([i \in 1..Len(text) |-> UnitOctets(text, i)])

\* The file generateIcs returned, or handed to the download, in this state.
IcsFiles ==
    (IF output.encoder = "ics" THEN {output.result} ELSE {})
      \cup { browser.log[i].file.content :
               i \in { j \in 1..Len(browser.log) : browser.log[j].file.mimeType = "text/calendar" } }

\* C13: every physical line of the file generateIcs produces (the text between
\* two CRLF) is at most 75 octets long, for every plan, including long event
\* names, long workout names and descriptions, and multi-byte characters.
C13_LinesAtMost75Octets ==
    \A file \in IcsFiles :
        \A line \in Range(PhysicalLines(file)) : Octets(line) <= FoldMaxLength

StartsWith(line, prefix) ==
    Len(line) >= Len(prefix) /\ SubSeq(line, 1, Len(prefix)) = prefix

\* The workouts of a plan that get an event, each with its day, in plan order.
IcsKeptWorkouts(plan) ==
    Flatten([i \in 1..Len(plan.weeks) |->
      Flatten([j \in 1..Len(plan.weeks[i].days) |->
        LET day == plan.weeks[i].days[j]
        IN SelectSeq([k \in 1..Len(day.workouts) |-> [workout |-> day.workouts[k], day |-> day]],
                     LAMBDA e : ~(e.workout.sport = "rest" /\ e.workout.name = <<>>))])])

\* The UID and TRANSP lines a file must hold, in order, for a plan with
\* raceDays race-day events at its end.
ExpectedUidLines(plan, raceDays) ==
    LET kept == IcsKeptWorkouts(plan)
    IN [k \in 1..Len(kept) |->
          Chars("UID:") \o kept[k].workout.id \o <<"-">> \o kept[k].day.date
            \o Chars("@claude-coach")]
         \o [r \in 1..raceDays |-> Chars("UID:race-day@claude-coach")]

ExpectedTranspLines(plan, raceDays) ==
    [k \in 1..Len(IcsKeptWorkouts(plan)) |-> Chars("TRANSP:TRANSPARENT")]
      \o [r \in 1..raceDays |-> Chars("TRANSP:OPAQUE")]

\* The events of the file are those of the plan followed by raceDays race days.
IcsEventsAre(file, plan, raceDays) ==
    LET lines == PhysicalLines(file)
    IN /\ Len(SelectSeq(lines, LAMBDA l : l = Chars("BEGIN:VEVENT")))
            = Len(IcsKeptWorkouts(plan)) + raceDays
       /\ Len(SelectSeq(lines, LAMBDA l : l = Chars("END:VEVENT")))
            = Len(IcsKeptWorkouts(plan)) + raceDays
       /\ SelectSeq(lines, LAMBDA l : StartsWith(l, Chars("UID:")))
            = ExpectedUidLines(plan, raceDays)
       /\ SelectSeq(lines, LAMBDA l : StartsWith(l, Chars("TRANSP:")))
            = ExpectedTranspLines(plan, raceDays)

\* The plan has a race day: meta.eventDate is there and is not empty.
HasEventDate(plan) == plan.meta.eventDate # undefined /\ plan.meta.eventDate[1] # <<>>

\* C15 (as stated): generateIcs emits one VEVENT per workout, in plan order,
\* leaving out a rest workout with an empty name, followed by exactly one
\* race-day event, which is the last event and the only one with
\* TRANSP:OPAQUE.
C15_EventsThenRaceDayAsStated ==
    \A c \in Calls :
        (calls[c].kind = "exportPlanToCalendar" /\ output.encoder = "ics") =>
            IcsEventsAre(output.result, calls[c].plan, 1)

\* C15 (amended): generateIcs emits one VEVENT per workout, in plan order,
\* leaving out a rest workout with an empty name, followed by exactly one
\* race-day event when the plan has a non-empty event date and by none
\* otherwise; the race-day event, when there is one, is the last event and
\* the only one with TRANSP:OPAQUE.
C15_EventsThenRaceDay ==
    \A c \in Calls :
        (calls[c].kind = "exportPlanToCalendar" /\ output.encoder = "ics") =>
            IcsEventsAre(output.result, calls[c].plan,
                         IF HasEventDate(calls[c].plan) THEN 1 ELSE 0)

\* Two workouts, one of them a rest day without a name, and a race day.
C15_Witness ==
    \E c \in Calls :
        /\ calls[c].kind = "exportPlanToCalendar" /\ output.encoder = "ics"
        /\ HasEventDate(calls[c].plan)
        /\ Len(calls[c].plan.weeks[1].days) = 2
        /\ Len(IcsKeptWorkouts(calls[c].plan)) = 1
        /\ Len(SelectSeq(PhysicalLines(output.result), LAMBDA l : l = Chars("BEGIN:VEVENT"))) = 2

XmlEntities ==
    << [char |-> "&",  entity |-> Chars("&amp;")],
       [char |-> "<",  entity |-> Chars("&lt;")],
       [char |-> ">",  entity |-> Chars("&gt;")],
       [char |-> "\"", entity |-> Chars("&quot;")],
       [char |-> "'",  entity |-> Chars("&apos;")] >>

\* The entities that start at position i of a text.
EntitiesAt(text, i) ==
    { k \in 1..Len(XmlEntities) :
        /\ i + Len(XmlEntities[k].entity) - 1 <= Len(text)
        /\ SubSeq(text, i, i + Len(XmlEntities[k].entity) - 1) = XmlEntities[k].entity }

\* The text with each of the five entities replaced back by its character.
RECURSIVE XmlUnescapeFrom(_, _)
XmlUnescapeFrom(text, i) ==
    IF i > Len(text) THEN <<>>
    ELSE IF EntitiesAt(text, i) # {}
         THEN LET k == CHOOSE k \in EntitiesAt(text, i) : TRUE
              IN <<XmlEntities[k].char>> \o XmlUnescapeFrom(text, i + Len(XmlEntities[k].entity))
         ELSE <<text[i]>> \o XmlUnescapeFrom(text, i + 1)

XmlUnescape(text) == XmlUnescapeFrom(text, 1)

\* `escaped` is a well-formed escaping of `original`.
XmlEscapes(escaped, original) ==
    /\ Range(escaped) \cap {"<", ">", "\"", "'"} = {}
    /\ \A i \in 1..Len(escaped) : escaped[i] = "&" => EntitiesAt(escaped, i) # {}
    /\ Len(escaped) = SumSeq([i \in 1..Len(original) |->
                                IF \E k \in 1..Len(XmlEntities) : XmlEntities[k].char = original[i]
                                THEN Len(XmlEntities[CHOOSE k \in 1..Len(XmlEntities) :
                                                       XmlEntities[k].char = original[i]].entity)
                                ELSE 1])
    /\ XmlUnescape(escaped) = original

\* The text generateZwo puts in the description element, before escaping.
ZwoDescriptionText(w) ==
    w.description \o (IF w.humanReadable # undefined /\ w.humanReadable[1] # <<>>
                      THEN <<"\n", "\n">> \o UnescapeNewlines(w.humanReadable[1])
                      ELSE <<>>)

\* C16: the text generateZwo writes in the name and description elements has
\* no raw <, >, double quote or apostrophe, each & in it begins one of the
\* five entities, every character is escaped once (never twice), and replacing
\* the entities back yields the original name and description (with
\* humanReadable appended).
C16_XmlEscaping ==
    (output.encoder = "zwo" /\ ~output.result.threw) =>
        /\ XmlEscapes(output.result.content.name, workout.name)
        /\ XmlEscapes(output.result.content.description, ZwoDescriptionText(workout))

\* A name with an ampersand next to a bracket, and a description with
\* humanReadable appended.
C16_Witness ==
    /\ output.encoder = "zwo" /\ ~output.result.threw
    /\ workout.name = <<"&", "<">>
    /\ workout.humanReadable # undefined
    /\ workout.description = <<"<", "'", ">">>
    /\ output.result.content.name = Chars("&amp;&lt;")

\* Stripping the forbidden characters, then turning each maximal run of
\* whitespace into one underscore.
StrippedAndCollapsed(name) ==
    LET stripped == SelectSeq(name, LAMBDA ch : ch \notin InvalidFilenameChars)
    IN Flatten([i \in 1..Len(stripped) |->
                  IF stripped[i] \notin Whitespace THEN <<stripped[i]>>
                  ELSE IF i > 1 /\ stripped[i - 1] \in Whitespace THEN <<>>
                  ELSE <<"_">>])

\* C17: the result of sanitizeFilename holds none of < > : " / \ | ? * and no
\* whitespace, is the first 100 characters of the input with the forbidden
\* characters stripped and each remaining maximal run of whitespace turned
\* into one underscore, equals the input when the input already has none of
\* these characters and at most 100 characters, and is left unchanged by a
\* second application.
C17_SanitizeFilename ==
    output.encoder = "sanitizeFilename" =>
        LET r == output.result
            t == StrippedAndCollapsed(workout.name)
        IN /\ Range(r) \cap {"<", ">", ":", "\"", "/", "\\", "|", "?", "*"} = {}
           /\ Range(r) \cap Whitespace = {}
           /\ Len(r) <= 100
           /\ r = SubSeq(t, 1, IF Len(t) < 100 THEN Len(t) ELSE 100)
           /\ (/\ Range(workout.name) \cap ({"<", ">", ":", "\"", "/", "\\", "|", "?", "*"}
                                              \cup Whitespace) = {}
               /\ Len(workout.name) <= 100) => r = workout.name
           /\ sanitizeFilename(r) = r

\* A name over 100 characters with a forbidden character next to a space.
C17_Witness ==
    /\ output.encoder = "sanitizeFilename"
    /\ Len(workout.name) > 100
    /\ SubSeq(workout.name, 99, 100) = <<"<", " ">>
    /\ Len(output.result) = 100
    /\ output.result[99] = "_"

\* The object URLs that downloads have created so far.
DownloadUrls == { browser.log[i].url : i \in 1..Len(browser.log) }

\* The places of the log where the download of URL u acted.
DownloadPlaces(u) == { i \in 1..Len(browser.log) : browser.log[i].url = u }

\* The DOM operations of the download of URL u, in the order they were made.
DownloadOpsOf(u) ==
    LET entries == SelectSeq(browser.log, LAMBDA e : e.url = u)
    IN [i \in 1..Len(entries) |-> entries[i].op]

\* The downloads made by call c, each named by its object URL.
DownloadsOf(c) == { browser.log[i].url : i \in DownloadEvents(c) }

\* The call returned a success built after its downloadFile call returned.
ReturnedAfterDownload(c) ==
    /\ calls[c].pc = "done" /\ calls[c].status = "resolved"
    /\ \/ calls[c].kind = "exportWorkout" /\ calls[c].result.success
       \/ IsBatch(c) /\ calls[c].result.exported > 0

\* C18: a downloadFile call makes its DOM operations in program order, one
\* after the other and each once: create the object URL, append the link,
\* click it, remove it, revoke the URL.  At every moment the operations of one
\* download are an initial part of that list, not interleaved with another
\* download's; a downloadFile call that returned made all five, and left no
\* link attached and no object URL unrevoked.
C18_DownloadOrder ==
    /\ \A u \in DownloadUrls :
         LET ops    == DownloadOpsOf(u)
             places == DownloadPlaces(u)
         IN /\ Len(ops) <= Len(DownloadOps)
            /\ ops = SubSeq(DownloadOps, 1, Len(ops))
            /\ \A i, j \in places : \A k \in i..j : k \in places
            /\ \A i, j \in places : browser.log[i].file = browser.log[j].file
            /\ Len(ops) = Len(DownloadOps) =>
                 /\ u \notin browser.urls
                 /\ \A link \in browser.body : link.href # u
    /\ \A c \in Calls :
         ReturnedAfterDownload(c) =>
            /\ Cardinality(DownloadsOf(c)) = 1
            /\ \A u \in DownloadsOf(c) : DownloadOpsOf(u) = DownloadOps
            /\ browser.urls = {} /\ browser.body = {}

C18_Witness ==
    \E c \in Calls :
        /\ calls[c].kind = "exportWorkout" /\ ReturnedAfterDownload(c)
        /\ Len(browser.log) = Len(DownloadOps)
        /\ browser.log[4].op = "removeChild"

\* The files that call c has handed to downloadFile.
DownloadedFiles(c) == { browser.log[i].file : i \in DownloadEvents(c) }

\* The payloads the encoder of an exportWorkout call can return.
EncoderPayloads(c) ==
    { Encode(calls[c].workout, calls[c].format, calls[c].settings, sdk).content :
        sdk \in { s \in SdkBehaviours :
                    ~Encode(calls[c].workout, calls[c].format, calls[c].settings, s).threw } }

\* The call ended in the catch clause with what the FIT encoder threw.
EncoderThrew(c) ==
    /\ calls[c].pc = "done" /\ calls[c].format = "fit"
    /\ calls[c].result.success = FALSE
    /\ calls[c].result.error \in {Some("FIT encoder failure"), Some("Unknown error")}

\* C19: an artifact is downloaded only after its encoder returned the complete
\* payload.  An exportWorkout call downloads at most once, never before its
\* encoder (awaited, for FIT) was invoked and returned, and what it downloads
\* is the encoder's payload; a call refused for its sport or its format, or
\* whose encoder threw, downloads nothing.  An exportAllWorkouts call downloads
\* nothing before every workout was processed and the archive generated, and
\* what it downloads is that archive.
C19_DownloadAfterEncoder ==
    \A c \in Calls :
        /\ calls[c].kind = "exportWorkout" =>
             /\ Cardinality(DownloadsOf(c)) <= 1
             /\ calls[c].pc # "done" => DownloadEvents(c) = {}
             /\ DownloadEvents(c) # {} =>
                  /\ calls[c].invoked = 1
                  /\ exportWorkoutRefusal(calls[c].workout, calls[c].format) = undefined
                  /\ \A file \in DownloadedFiles(c) : file.content \in EncoderPayloads(c)
             /\ calls[c].pc = "done"
                  /\ exportWorkoutRefusal(calls[c].workout, calls[c].format) # undefined
                  => DownloadEvents(c) = {} /\ calls[c].invoked = 0
             /\ EncoderThrew(c) => DownloadEvents(c) = {}
        /\ IsBatch(c) =>
             /\ Cardinality(DownloadsOf(c)) <= 1
             /\ calls[c].pc # "done" => DownloadEvents(c) = {}
             /\ DownloadEvents(c) # {} =>
                  /\ calls[c].idx > Len(PlanWorkouts(calls[c].plan))
                  /\ calls[c].pending = NoPending
                  /\ \A file \in DownloadedFiles(c) : file.content = calls[c].zip

\* A FIT export downloaded what the awaited encoder returned.
C19_Witness ==
    \E c \in Calls :
        /\ calls[c].kind = "exportWorkout" /\ calls[c].format = "fit"
        /\ calls[c].pc = "done" /\ calls[c].result.success
        /\ \E file \in DownloadedFiles(c) : file.content.format = "fit"

\* What a DOM operation of a download shows, without the number of its URL.
Shown(entry) == [op |-> entry.op, file |-> entry.file]

ShownLog(log) == [i \in 1..Len(log) |-> Shown(log[i])]

\* What call c has to show: how it settled, its archive, and the DOM
\* operations of its download in the order they were made.
Observed(c) ==
    [status |-> calls[c].status, result |-> calls[c].result, zip |-> calls[c].zip,
     log    |-> ShownLog(SelectSeq(browser.log, LAMBDA e : e.file.owner = c))]

\* exportWorkout as call c on a page of its own: what it has to show at its
\* return, for everything the FIT encoder and the browser can do.
ExportWorkoutAlone(c, start) ==
    LET refusal == exportWorkoutRefusal(start.workout, start.format)
    IN IF refusal # undefined
       THEN { [status |-> "resolved", result |-> refusal[1], zip |-> EmptyZip, log |-> <<>>] }
       ELSE { LET d == exportWorkoutDeliver(
                         EmptyBrowser, c, start.workout, start.format,
                         Encode(start.workout, start.format, start.settings, sdk), fault)
              IN [status |-> d.settled.status, result |-> d.settled.result,
                  zip |-> EmptyZip, log |-> ShownLog(d.browser.log)] :
              sdk \in SdkBehaviours, fault \in DownloadFaults }

\* exportAllWorkouts as call c on a page of its own, from the call record
\* `self` on: what it has to show at its return.
RECURSIVE BatchAlone(_, _)
BatchAlone(c, self) ==
    CASE self.pc = "start" ->
           UNION { BatchAlone(c, batchRun(self, sdk)) : sdk \in SdkBehaviours }
      [] self.pc = "awaitContent" ->
           UNION { BatchAlone(c, batchRun([batchRecord(self, self.pending)
                                             EXCEPT !.pending = NoPending], sdk)) :
                   sdk \in SdkBehaviours }
      [] self.pc = "awaitZip" ->
           { LET d == batchDeliver(EmptyBrowser, c, self, fault)
             IN [status |-> d.call.status, result |-> d.call.result, zip |-> d.call.zip,
                 log |-> ShownLog(d.browser.log)] :
             fault \in DownloadFaults }
      [] OTHER ->
           { [status |-> self.status, result |-> self.result, zip |-> self.zip, log |-> <<>>] }

\* Call c run alone, from its arguments.
RunsAlone(c) ==
    LET start == CallRecord(calls[c].kind, "start", calls[c].workout, calls[c].plan,
                            calls[c].format, calls[c].settings)
    IN IF calls[c].kind = "exportWorkout" THEN ExportWorkoutAlone(c, start)
       ELSE BatchAlone(c, start)

\* The files the archive of call c can hold: one per workout of its own plan
\* that its format supports, under the sanitized name of the workout.
OwnArtifacts(c) ==
    LET workouts == PlanWorkouts(calls[c].plan)
    IN { [name    |-> sanitizeFilename(workouts[i].name) \o Extension(calls[c].format),
          content |-> Encode(workouts[i], calls[c].format, calls[c].settings, "ok").content] :
         i \in { j \in 1..Len(workouts) : ~batchSkips(workouts[j], calls[c].format) } }

\* C20: two export calls whose steps interleave at the awaits are
\* independent.  Each call, once it has returned, shows what it shows in one
\* of its runs alone on a page of its own: the same result, the same archive,
\* the same download; and at every moment the archive of a call holds only
\* artifacts of the call's own workouts, encoded with its own settings.
C20_ConcurrentExportsIndependent ==
    \A c \in Calls :
        /\ calls[c].pc = "done" => Observed(c) \in RunsAlone(c)
        /\ calls[c].pc # "done" => Observed(c).log = <<>>
        /\ IsBatch(c) =>
             \A name \in DOMAIN calls[c].zip :
                 [name |-> name, content |-> calls[c].zip[name]] \in OwnArtifacts(c)

\* Both calls returned with an archive each, the second call's download made
\* before the first call's.
C20_Witness ==
    /\ \A c \in Calls : ReturnedAfterDownload(c)
    /\ IsBatch(1) /\ calls[1].format = "fit"
    /\ IsBatch(2) /\ calls[2].result.exported = 2
    /\ browser.log[1].file.owner = 2
    /\ browser.log[Len(browser.log)].file.owner = 1

\* The set is exactly one work step and one recovery (or rest) step.
IsWorkRecoveryPair(set) ==
    /\ Len(set.steps) = 2
    /\ \E i, j \in 1..2 :
         /\ i # j
         /\ set.steps[i].type = "work"
         /\ set.steps[j].type \in {"recovery", "rest"}

\* The lines the ZWO encoder pushed for main item number i of the structure.
ZwoMainSegment(i) == output.result.content.segments[Len(workout.structure[1].warmup) + i]

\* C21: the ZWO encoder collapses an IntervalSet into one IntervalsT element
\* (Repeat = repeats, On from the work step, Off from the recovery step) only
\* when the set is exactly one work step and one recovery or rest step; a set
\* of any other shape is written as its expanded steps, repeats x steps.length
\* step elements in block order.
C21_IntervalsTOnlyForWorkRecoveryPair ==
    EncodedStructured({"zwo"}) =>
        \A i \in 1..Len(workout.structure[1].main) :
            LET item     == workout.structure[1].main[i]
                segment  == ZwoMainSegment(i)
                expanded == ExpandItem(item)
                work     == FindStep(item.steps, {"work"})[1]
                recovery == FindStep(item.steps, {"recovery", "rest"})[1]
            IN IsIntervalSet(item) =>
                 IF IsWorkRecoveryPair(item)
                 THEN /\ Len(segment) = 1
                      /\ segment[1].tag = "IntervalsT"
                      /\ segment[1].Repeat = item.repeats
                      /\ segment[1].OnDuration
                           = durationToSeconds(work.duration.value, work.duration.unit)
                      /\ segment[1].OffDuration
                           = durationToSeconds(recovery.duration.value, recovery.duration.unit)
                      /\ segment[1].OnPower
                           = toFixed2Power(intensityToDecimal(PercentTenths(work.intensity.value)))
                      /\ segment[1].OffPower
                           = toFixed2Power(intensityToDecimal(PercentTenths(recovery.intensity.value)))
                 ELSE /\ Len(segment) = Len(expanded)
                      /\ \A j \in 1..Len(segment) :
                           /\ segment[j].tag # "IntervalsT"
                           /\ segment[j].Duration
                                = durationToSeconds(expanded[j].duration.value,
                                                    expanded[j].duration.unit)

\* The steps of the structure that the ZWO encoder writes with
\* generateSteadyState, each with the element written for it: single main
\* steps, warm-up steps not typed warmup and cool-down steps not typed cooldown.
ZwoPlainSteps ==
    LET structure == workout.structure[1]
        segments  == output.result.content.segments
        nw        == Len(structure.warmup)
        nm        == Len(structure.main)
    IN { <<structure.warmup[i], segments[i][1]>> :
           i \in { k \in 1..nw : structure.warmup[k].type # "warmup" } }
         \cup
       { <<structure.main[i], segments[nw + i][1]>> :
           i \in { k \in 1..nm : ~IsIntervalSet(structure.main[k]) } }
         \cup
       { <<structure.cooldown[i], segments[nw + nm + i][1]>> :
           i \in { k \in 1..Len(structure.cooldown) : structure.cooldown[k].type # "cooldown" } }

\* value / 100 written with two decimals, in hundredths
TwoDecimalFraction(value) == value

\* C22: in the ZWO encoder a main-set step (or a warm-up or cool-down step not
\* tagged warmup or cooldown) with both a low and a high intensity bound is
\* written as a Ramp with PowerLow = valueLow/100 and PowerHigh = valueHigh/100,
\* and a step without bounds as a SteadyState with Power = value/100, the
\* fractions with two decimals.
C22_RampForBoundedSteps ==
    EncodedStructured({"zwo"}) =>
        \A pair \in ZwoPlainSteps :
            LET step    == pair[1]
                element == pair[2]
            IN /\ (step.intensity.valueLow # undefined /\ step.intensity.valueHigh # undefined) =>
                    /\ element.tag = "Ramp"
                    /\ element.PowerLow = TwoDecimalFraction(step.intensity.valueLow[1])
                    /\ element.PowerHigh = TwoDecimalFraction(step.intensity.valueHigh[1])
               /\ (step.intensity.valueLow = undefined /\ step.intensity.valueHigh = undefined) =>
                    /\ element.tag = "SteadyState"
                    /\ element.Power = TwoDecimalFraction(step.intensity.value)

\* Number of FIT records a main item stands for: one per step, and for an
\* interval set one repeat record and one per child step.
FitItemRecords(item) == IF IsIntervalSet(item) THEN 1 + Len(item.steps) ELSE 1

\* Place in the record list (from 1) before the records of main item number i.
FitItemOffset(structure, i) ==
    Len(structure.warmup)
      + SumSeq([j \in 1..(i - 1) |-> FitItemRecords(structure.main[j])])

\* The records of main item number i: as many records as the item stands for,
\* at the item's place in the list.
FitItemWindow(structure, steps, i) ==
    SubSeq(steps, FitItemOffset(structure, i) + 1,
           FitItemOffset(structure, i) + FitItemRecords(structure.main[i]))

IsRepeatRecord(record) == record.durationType = "repeat_until_steps_cmplt"

\* The record is the one written for the step.
IsRecordOf(record, step) ==
    /\ ~IsRepeatRecord(record)
    /\ record.intensity = getStepIntensity(step.type)
    /\ record.durationType = getDurationType(step.duration.unit)
    /\ record.durationValue = getDurationValue(step.duration.value, step.duration.unit)

\* The numbers a repeat record holds besides its own message index.
RepeatRecordNumbers(record) ==
    { record[f] : f \in DOMAIN record \ {"messageIndex", "workoutStepName", "durationType",
                                           "targetType", "intensity"} }

\* C23: in the FIT record list of a structured workout every IntervalSet is
\* one repeat record (repeat_until_steps_cmplt, carrying the repeat count) and
\* one record per child step; the repeat record and its child records are
\* contiguous, not interleaved with the records of any other item, and the
\* repeat record refers to its child records by message index.
C23_RepeatRecordSpansChildren ==
    EncodedStructured({"fit"}) =>
        LET structure == workout.structure[1]
            steps     == output.result.content.steps
        IN /\ Cardinality({ p \in 1..Len(steps) : IsRepeatRecord(steps[p]) })
                = Cardinality({ i \in 1..Len(structure.main) : IsIntervalSet(structure.main[i]) })
           /\ \A i \in 1..Len(structure.main) :
                LET item     == structure.main[i]
                    window   == FitItemWindow(structure, steps, i)
                    repeats  == SelectSeq(window, IsRepeatRecord)
                    children == SelectSeq(window, LAMBDA r : ~IsRepeatRecord(r))
                IN IsIntervalSet(item) =>
                     /\ Len(repeats) = 1
                     /\ repeats[1].durationValue = item.repeats
                     /\ Len(children) = Len(item.steps)
                     /\ \A j \in 1..Len(children) : IsRecordOf(children[j], item.steps[j])
                     /\ item.steps # <<>> =>
                          children[1].messageIndex \in RepeatRecordNumbers(repeats[1])

\* C24: in the FIT record list of a structured workout the messageIndex values
\* of the step records are 0, 1, 2, ... without gap or duplicate, each equal
\* to the record's position in the list, and numValidSteps of the workout
\* record is the number of step records.
C24_MessageIndexIsPosition ==
    EncodedStructured({"fit"}) =>
        LET steps == output.result.content.steps
        IN /\ \A p \in 1..Len(steps) : steps[p].messageIndex = p - 1
           /\ output.result.content.workout.numValidSteps = Len(steps)

\* Every step of the structure with the FIT record written for it: warm-up
\* steps, single main steps, the child steps of the interval sets, and
\* cool-down steps.
FitStepPairs ==
    LET structure == workout.structure[1]
        steps     == output.result.content.steps
        nw        == Len(structure.warmup)
        nc        == Len(structure.cooldown)
        children(i) == SelectSeq(FitItemWindow(structure, steps, i),
                                 LAMBDA r : ~IsRepeatRecord(r))
    IN { <<structure.warmup[i], steps[i]>> : i \in 1..nw }
         \cup
       { <<structure.cooldown[i], steps[Len(steps) - nc + i]>> : i \in 1..nc }
         \cup
       UNION { IF IsIntervalSet(structure.main[i])
               THEN { <<structure.main[i].steps[j], children(i)[j]>> :
                        j \in 1..Len(structure.main[i].steps) }
               ELSE { <<structure.main[i], FitItemWindow(structure, steps, i)[1]>> } :
               i \in 1..Len(structure.main) }

\* The bounds that the intensity gives are in order around its value.
BoundsOrdered(intensity) ==
    /\ intensity.valueLow # undefined => intensity.valueLow[1] <= intensity.value
    /\ intensity.valueHigh # undefined => intensity.value <= intensity.valueHigh[1]

ErgColumnValue(percent) ==
    IF output.encoder = "mrc" THEN percent
    ELSE (percent * output.result.content.ftp + 50) \div 100

IsRampStep(step) ==
    step.intensity.valueLow # undefined /\ step.intensity.valueHigh # undefined

\* C26: in the MRC/ERG data block of a structured workout every expanded step
\* contributes two breakpoints, one at its start and one at its end: a steady
\* step has its value at both, a ramp step its two bounds.  The block has
\* 2 x (number of expanded steps) lines, the first at minute 0.00, each step
\* starts at the minute the previous one ends, and the minutes column never
\* decreases.
C26_TwoBreakpointsPerStep ==
    EncodedStructured({"mrc", "erg"}) =>
        LET data     == output.result.content.data
            expanded == ExpandedSteps(workout.structure[1])
        IN /\ Len(data) = 2 * Len(expanded)
           /\ data # <<>> => data[1][1] = 0
           /\ \A p \in 2..Len(data) : data[p - 1][1] <= data[p][1]
           /\ \A j \in 1..Len(expanded) :
                LET step  == expanded[j]
                    first == data[2 * j - 1]
                    last  == data[2 * j]
                IN /\ j > 1 => first[1] = data[2 * j - 2][1]
                   /\ IF IsRampStep(step)
                      THEN {first[2], last[2]}
                             = { ErgColumnValue(step.intensity.valueLow[1]),
                                 ErgColumnValue(step.intensity.valueHigh[1]) }
                      ELSE /\ first[2] = ErgColumnValue(step.intensity.value)
                           /\ last[2] = first[2]

\* An ERG file of a steady step, a ramp step and a repeated set.
C26_Witness ==
    /\ EncodedStructured({"erg"})
    /\ workout.structure[1].warmup = <<PlainWarmupStep, ActiveStep>>
    /\ Len(workout.structure[1].main) = 1
    /\ IsIntervalSet(workout.structure[1].main[1])
    /\ workout.structure[1].main[1].repeats = 2
    /\ Len(workout.structure[1].main[1].steps) = 3
    /\ workout.structure[1].cooldown = <<>>
    /\ Len(output.result.content.data) = 2 * (2 + 2 * 3)
    /\ output.result.content.data[3][2] # output.result.content.data[4][2]

\* C27: for a cool-down step with ramp bounds valueLow < valueHigh the MRC/ERG
\* breakpoint at the step's start carries the higher bound and the breakpoint
\* at its end the lower bound: the cool-down descends, as it does in the ZWO
\* encoder, where valueHigh is the start power of a Cooldown and valueLow its
\* end power.
C27_ErgCooldownDescends ==
    EncodedStructured({"mrc", "erg"}) =>
        LET data     == output.result.content.data
            cooldown == workout.structure[1].cooldown
            before   == Len(ExpandedSteps(workout.structure[1])) - Len(cooldown)
        IN \A i \in 1..Len(cooldown) :
             (/\ cooldown[i].type = "cooldown"
              /\ IsRampStep(cooldown[i])
              /\ cooldown[i].intensity.valueLow[1] < cooldown[i].intensity.valueHigh[1]) =>
                /\ data[2 * (before + i) - 1][2]
                     = ErgColumnValue(cooldown[i].intensity.valueHigh[1])
                /\ data[2 * (before + i)][2]
                     = ErgColumnValue(cooldown[i].intensity.valueLow[1])

\* The length of a distance in thousandths of a meter.
DistanceMillimeters(duration) ==
    CASE duration.unit = "meters"     -> duration.value * 1000
      [] duration.unit = "kilometers" -> duration.value * 1000 * 1000
      [] duration.unit = "miles"      -> duration.value * 1609344

\* The time a step takes in 1/3000 of a minute: its duration, or for a
\* distance the time the distance takes at 30 km/h (a kilometer takes two
\* minutes, a thousandth of a meter 2 x 3000 / 1000000 of the unit).
NormalizedTicks(step) ==
    CASE step.duration.unit = "seconds" -> step.duration.value * TicksPerSecond
      [] step.duration.unit = "minutes" -> step.duration.value * TicksPerMinute
      [] step.duration.unit = "hours"   -> step.duration.value * 60 * TicksPerMinute
      [] OTHER -> (DistanceMillimeters(step.duration) * (TicksPerMinute \div 500)) \div 1000

\* The speeds, in km/h, a ZWO duration of a distance may be computed with.
AssumedSpeeds == 5..60

\* C28: seconds, minutes and hours convert exactly (x1, x60, x3600 seconds in
\* ZWO; /60, x1, x60 minutes in MRC/ERG); a duration given as a distance, in
\* meters, kilometers or miles, becomes the time the distance takes at 30 km/h
\* in the MRC/ERG encoder and at one assumed speed in the ZWO encoder; no
\* encoder takes the distance number itself for minutes or seconds.
C28_DurationNormalization ==
    /\ EncodedStructured({"mrc", "erg"}) =>
         LET data     == output.result.content.data
             expanded == ExpandedSteps(workout.structure[1])
         IN \A j \in 1..Len(expanded) :
              data[2 * j][1]
                = toFixed2Minutes(SumSeq([i \in 1..j |-> NormalizedTicks(expanded[i])]))
    /\ EncodedStructured({"zwo"}) =>
         \E kmh \in AssumedSpeeds :
            \A pair \in ZwoPlainSteps :
                LET duration == pair[1].duration
                    element  == pair[2]
                IN CASE duration.unit = "seconds" -> element.Duration = duration.value
                     [] duration.unit = "minutes" -> element.Duration = duration.value * 60
                     [] duration.unit = "hours"   -> element.Duration = duration.value * 3600
                     [] OTHER ->
                          /\ element.Duration # duration.value
                          /\ element.Duration
                               = (DistanceMillimeters(duration) * 36) \div (kmh * 10000)

\* The main-phase length written in a file without a structured body, in the
\* unit of the file: ZWO seconds, FIT milliseconds, MRC/ERG hundredths of a
\* minute between the third and the fourth data line.
EmittedMainLength ==
    CASE output.encoder = "zwo" -> ZwoElements(output.result.content)[2].Duration
      [] output.encoder = "fit" -> output.result.content.steps[2].durationValue
      [] OTHER -> output.result.content.data[4][1] - output.result.content.data[3][1]

\* The warm-up and cool-down lengths written in the file, and one minute, in
\* the same unit.
EmittedAroundLength ==
    CASE output.encoder = "zwo" ->
           ZwoElements(output.result.content)[1].Duration
             + ZwoElements(output.result.content)[3].Duration
      [] output.encoder = "fit" ->
           output.result.content.steps[1].durationValue
             + output.result.content.steps[3].durationValue
      [] OTHER ->
           (output.result.content.data[2][1] - output.result.content.data[1][1])
             + (output.result.content.data[6][1] - output.result.content.data[5][1])

EmittedMinute ==
    CASE output.encoder = "zwo" -> 60
      [] output.encoder = "fit" -> 60 * 1000
      [] OTHER -> 100

\* C29: in the fallback path of every encoder the main-phase length, total -
\* warm-up - cool-down, is negative exactly when the total is under 10
\* minutes, 0 at exactly 10 minutes and positive above; a negative length is
\* written as it is (ZWO SteadyState Duration, FIT durationValue, an MRC/ERG
\* minutes column that steps back), neither clamped nor rejected.
C29_NegativeMainPhase ==
    EncodedSimple({"zwo", "fit", "mrc", "erg"}) =>
        LET total == FallbackTotal(workout)
            main  == EmittedMainLength
        IN /\ main = total * EmittedMinute - EmittedAroundLength
           /\ main < 0 <=> total < 10
           /\ main = 0 <=> total = 10
           /\ main > 0 <=> total > 10
           /\ total < 10 => main = (total - 10) * EmittedMinute

\* A 7-minute workout: the MRC minutes column steps back from 5.00 to 2.00.
C29_Witness ==
    /\ EncodedSimple({"mrc"})
    /\ workout.durationMinutes = Some(7)
    /\ output.result.content.data[3][1] = 500
    /\ output.result.content.data[4][1] = 200

\* Positions in the plan of the workouts the sport checks pass over.
PassedOver(c) ==
    { i \in 1..Len(PlanWorkouts(calls[c].plan)) :
        batchSkips(PlanWorkouts(calls[c].plan)[i], calls[c].format) }

\* The counts of a returned batch: every workout of the plan is in exactly one
\* of them, the encoder ran once for each workout not passed over and for no
\* other, and every workout passed over is among the skipped.
BatchAccounts(c) ==
    LET count  == Len(PlanWorkouts(calls[c].plan))
        result == calls[c].result
    IN /\ result.exported + result.skipped + Len(result.errors) = count
       /\ calls[c].invoked = count - Cardinality(PassedOver(c))
       /\ result.skipped >= Cardinality(PassedOver(c))

\* A step that raises the exported count of a batch raises it by one, for the
\* workout the call was waiting on, which the sport checks let through, and
\* leaves that workout's file with its encoded content in the archive.
ExportedWithFile(c) ==
    (IsBatch(c) /\ calls'[c].kind = calls[c].kind
                /\ calls'[c].exported > calls[c].exported) =>
        LET w    == PlanWorkouts(calls[c].plan)[calls[c].idx]
            name == sanitizeFilename(w.name) \o Extension(calls[c].format)
        IN /\ calls[c].pc = "awaitContent"
           /\ calls'[c].exported = calls[c].exported + 1
           /\ ~batchSkips(w, calls[c].format)
           /\ calls[c].pending.content # undefined
           /\ name \in DOMAIN calls'[c].zip
           /\ calls'[c].zip[name] = calls[c].pending.content[1].content

\* C30: exportAllWorkouts accounts for every workout of the plan exactly once:
\* after the call exported + skipped + errors.length is the number of workouts
\* of the plan; a workout whose sport is rest or is unsupported by the format
\* is counted as skipped and no encoder is invoked for it; and a workout is
\* counted as exported only if its file was added to the archive.
C30_EveryWorkoutAccounted ==
    /\ [](\A c \in Calls : BatchReturned(c) => BatchAccounts(c))
    /\ [][\A c \in Calls : ExportedWithFile(c)]_vars

\* A batch returned with a workout exported, a workout passed over for its
\* sport and a workout whose encoder failed.
C30_Witness ==
    \E c \in Calls :
        /\ BatchReturned(c)
        /\ calls[c].result.exported >= 1
        /\ PassedOver(c) # {}
        /\ calls[c].failures >= 1
        /\ calls[c].result.skipped > Cardinality(PassedOver(c))

====
